---- MODULE Spec2Model ----
(***************************************************************************)
(* Shader hookup of the tk-config loader and publisher hooks.              *)
(*                                                                         *)
(* A string is a sequence of symbols.  A symbol is one character, except   *)
(* the two units "SHADER_HOOKUP_" and "XG", which stand for these literal  *)
(* pieces of text so that the two hookup prefixes of the hooks are the     *)
(* strings <<"SHADER_HOOKUP_">> and <<"XG", "SHADER_HOOKUP_">>.            *)
(***************************************************************************)
EXTENDS Naturals, Sequences, FiniteSets, TLC

VARIABLES
    scriptNodes,     \* cmds.ls(type="script"): the script nodes, in the host's order
    transforms,      \* cmds.ls(transforms=True): the transform nodes, in the host's order
    materials,       \* names of the shader nodes that exist in the scene
    shading,         \* shading[i]: the shader assigned to transforms[i]
    selection,       \* the host's selection: an index of transforms, or 0
    calls,           \* the scene-changing host commands issued so far
    keys,            \* the Target Object Keys computed so far: [node, node_temp]
    shader_hookups,  \* the mapping returned by _shader_hookup_data
    items,           \* the order in which shader_hookups.iteritems() yields the patterns
    args,            \* the arguments of the call in progress or finished
    published,       \* the publish file: the shaders and script nodes exported
    recorded,        \* the script nodes publish created: [obj, node, shader]
    pc,              \* "ready", "published", "returned" or "raised"
    action_instances, \* the list generate_actions returned
    exec,            \* execute_multiple_actions: [actions, at, status, error]
    trace,           \* the steps the loader hook made, in order: [at, op, ...]
    references,      \* the file references of the scene: [path, namespace]
    work_file,       \* cmds.file(q=True, sn=True): the path of the scene, "" if unsaved
    disk,            \* the directories and files that exist on disk
    palettes,        \* xg.palettes(): the collections imported in the scene
    session,         \* the open scene as the collector sees it
    parent_item      \* the children of the root item of the publish tree

vars == <<scriptNodes, transforms, materials, shading, selection, calls, keys,
          shader_hookups, items, args, published, recorded, pc,
          action_instances, exec, trace, references,
          work_file, disk, palettes, session, parent_item>>

\* the state of the loader hook
hookVars == <<action_instances, exec, trace, references>>

\* the scene file, the disk and the publish tree
sessionVars == <<work_file, disk, palettes, session, parent_item>>

-----------------------------------------------------------------------------
(* Strings *)

SH == "SHADER_HOOKUP_"

XG == "XG"

\* hookup_prefix of the mesh variant: "SHADER_HOOKUP_"
MeshPrefix == <<SH>>

\* hookup_prefix of the hair variant: "XGSHADER_HOOKUP_"
XgPrefix == <<XG, SH>>

\* str.startswith
StartsWith(s, p) == Len(s) >= Len(p) /\ SubSeq(s, 1, Len(p)) = p

\* str.replace(old, ""): every non-overlapping occurrence of old, left to right
RECURSIVE Remove(_, _)
Remove(s, old) ==
    IF Len(s) < Len(old) \/ Len(old) = 0 THEN s
    ELSE IF StartsWith(s, old) THEN Remove(SubSeq(s, Len(old) + 1, Len(s)), old)
    ELSE <<Head(s)>> \o Remove(Tail(s), old)

\* str.split(sep) for a one-character separator: the list of pieces
RECURSIVE Split(_, _)
Split(s, sep) ==
    IF \A k \in 1..Len(s) : s[k] # sep THEN <<s>>
    ELSE LET k == CHOOSE k \in 1..Len(s) :
                      s[k] = sep /\ \A m \in 1..(k - 1) : s[m] # sep
         IN <<SubSeq(s, 1, k - 1)>> \o Split(SubSeq(s, k + 1, Len(s)), sep)

\* sep.join(parts)
RECURSIVE Join(_, _)
Join(parts, sep) ==
    IF Len(parts) = 0 THEN <<>>
    ELSE IF Len(parts) = 1 THEN parts[1]
    ELSE parts[1] \o <<sep>> \o Join(Tail(parts), sep)

\* list[-1]
Last(l) == l[Len(l)]

\* list[:-1]
ButLast(l) == SubSeq(l, 1, Len(l) - 1)

\* Lower without re.IGNORECASE: nothing is folded
LowerCaseSensitive(c) == c

\* what re.IGNORECASE folds: the letters of the model's alphabet
Lower(c) ==
    CASE c = "A" -> "a"
      [] c = "B" -> "b"
      [] c = "C" -> "c"
      [] c = "D" -> "d"
      [] OTHER -> c

-----------------------------------------------------------------------------
(* Regular expressions: the part of Python's re that the names of the      *)
(* model can spell: literals, ".", "|", "^" and "$".                       *)

\* one alternative of the pattern matched against key from position pos on
RECURSIVE MatchAt(_, _, _)
MatchAt(alt, key, pos) ==
    IF Len(alt) = 0 THEN TRUE
    ELSE LET a == Head(alt)
         IN CASE a = "^" -> pos = 1 /\ MatchAt(Tail(alt), key, pos)
              [] a = "$" -> pos = Len(key) + 1 /\ MatchAt(Tail(alt), key, pos)
              [] a = "." -> pos <= Len(key) /\ MatchAt(Tail(alt), key, pos + 1)
              [] OTHER -> /\ pos <= Len(key)
                          /\ Lower(key[pos]) = Lower(a)
                          /\ MatchAt(Tail(alt), key, pos + 1)

\* re.search(pattern, key, re.IGNORECASE) is not None
re_search(pattern, key) ==
    LET alts == Split(pattern, "|")
    IN \E n \in 1..Len(alts) : \E pos \in 1..(Len(key) + 1) :
           MatchAt(alts[n], key, pos)

-----------------------------------------------------------------------------
(* The host scene.  A script node is [name, beforeScript]; a transform is   *)
(* [long, shape]: its root-to-leaf path "|ns:grp|ns:leaf" and the type of   *)
(* its child shape ("mesh", "xgmDescription" or "none").                    *)

None == <<"None">>

\* the segments of a long name "|g|x": <<"g", "x">>
Segments(long) == Tail(Split(long, "|"))

\* the last k segments of a long name, joined as a partial path
PartialPath(long, k) ==
    LET sg == Segments(long)
    IN Join(SubSeq(sg, Len(sg) - k + 1, Len(sg)), "|")

\* the name cmds.ls and xg.descriptions give for a node: the shortest partial
\* path that names no other node of the scene, else the long name
ShortName(long, ts) ==
    LET n == Len(Segments(long))
        Unique(k) == \A j \in 1..Len(ts) :
                        \/ ts[j].long = long
                        \/ Len(Segments(ts[j].long)) < k
                        \/ PartialPath(ts[j].long, k) # PartialPath(long, k)
        ks == {k \in 1..n : Unique(k)}
    IN IF ks = {} THEN long
       ELSE PartialPath(long, CHOOSE k \in ks : \A m \in ks : k <= m)

\* cmds.ls(transforms=True): every transform of the scene
ls_transforms(ts) == [k \in 1..Len(ts) |-> k]

\* a transform parented to the collection node
IsBound(long, collection) ==
    LET sg == Segments(long)
    IN Len(sg) >= 2 /\ sg[Len(sg) - 1] = collection

\* xg.descriptions(collection): the transforms parented to the collection
\* node, from transform k on
RECURSIVE xg_descriptions(_, _, _)
xg_descriptions(ts, k, collection) ==
    IF k > Len(ts) THEN <<>>
    ELSE (IF IsBound(ts[k].long, collection) THEN <<k>> ELSE <<>>)
         \o xg_descriptions(ts, k + 1, collection)

\* cmds.objExists(shader): ":s" names the node s of the root namespace
objExists(name, mats) ==
    (IF Len(name) > 0 /\ Head(name) = ":" THEN Tail(name) ELSE name) \in mats

-----------------------------------------------------------------------------
(* _shader_hookup_data *)

\* DictPut that keeps the value a key already has
DictPutFirst(d, k, v) ==
    [x \in (DOMAIN d) \cup {k} |-> IF x \in DOMAIN d THEN d[x] ELSE v]

\* shader_hookups[obj_pattern] = value
DictPut(d, k, v) == [x \in (DOMAIN d) \cup {k} |-> IF x = k THEN v ELSE d[x]]

\* node_base: the local name of a script node
node_base_of(node) == Last(Split(node, ":"))

\* node_namespace: everything before the last ":"
node_namespace_of(node) == Join(ButLast(Split(node, ":")), ":")

\* the pattern without its anchors
obj_pattern_unanchored(node_base, hookup_prefix) == Remove(node_base, hookup_prefix)

\* obj_pattern = "^" + node_base.replace(hookup_prefix, "") + "$"
obj_pattern_of(node_base, hookup_prefix) ==
    <<"^">> \o Remove(node_base, hookup_prefix) \o <<"$">>

\* node_namespace + ":" + shader
hookup_shader_of(node, beforeScript) ==
    node_namespace_of(node) \o <<":">> \o beforeScript

\* ScanScriptNodes without the startswith test
RECURSIVE ScanScriptNodesNoFilter(_, _, _, _)
ScanScriptNodesNoFilter(nodes, k, hookup_prefix, d) ==
    IF k > Len(nodes) THEN d
    ELSE LET node == nodes[k].name
             base == Last(Split(node, ":"))
         IN ScanScriptNodesNoFilter(nodes, k + 1, hookup_prefix,
                [x \in (DOMAIN d) \cup {<<"^">> \o Remove(base, hookup_prefix) \o <<"$">>} |->
                    IF x = <<"^">> \o Remove(base, hookup_prefix) \o <<"$">>
                    THEN Join(ButLast(Split(node, ":")), ":") \o <<":">> \o nodes[k].beforeScript
                    ELSE d[x]])

\* the loop over cmds.ls(type="script"), from script node k on
RECURSIVE ScanScriptNodes(_, _, _, _)
ScanScriptNodes(nodes, k, hookup_prefix, d) ==
    IF k > Len(nodes) THEN d
    ELSE LET node == nodes[k].name
             base == node_base_of(node)
         IN IF ~StartsWith(base, hookup_prefix)
            THEN ScanScriptNodes(nodes, k + 1, hookup_prefix, d)
            ELSE ScanScriptNodes(nodes, k + 1, hookup_prefix,
                     DictPut(d, obj_pattern_of(base, hookup_prefix),
                             hookup_shader_of(node, nodes[k].beforeScript)))

\* shader_hookup_data with the prefix of the mesh variant written into it
shader_hookup_data_mesh_only(nodes, hookup_prefix) ==
    ScanScriptNodes(nodes, 1, <<SH>>, <<>>)

shader_hookup_data(nodes, hookup_prefix) ==
    ScanScriptNodes(nodes, 1, hookup_prefix, <<>>)

-----------------------------------------------------------------------------
(* _hookup_shaders *)

\* the namespace-stripped parents of a long name (empty pieces skipped)
RECURSIVE ParentBases(_)
ParentBases(node_parents) ==
    IF Len(node_parents) = 0 THEN <<>>
    ELSE (IF Head(node_parents) = <<>> THEN <<>>
          ELSE <<Last(Split(Head(node_parents), ":"))>>)
         \o ParentBases(Tail(node_parents))

\* node_temp_of that leaves the parents out: the key is node_base
node_temp_leaf_only(node, long) == Last(Split(node, ":"))

\* node_temp, the Target Object Key of a node named node with long name long
node_temp_of(node, long) ==
    LET node_base == Last(Split(node, ":"))
        sp == Split(long, "|")
    IN Join(ParentBases(ButLast(sp)) \o <<node_base>>, "_")

\* the key of transforms[k]
KeyOf(ts, k) == node_temp_of(ShortName(ts[k].long, ts), ts[k].long)

\* ItemCalls that leaves the loop after the first assignment
RECURSIVE ItemCallsBreak(_, _, _, _, _, _)
ItemCallsBreak(k, key, d, order, j, mats) ==
    IF j > Len(order) THEN <<>>
    ELSE IF re_search(order[j], key) /\ objExists(d[order[j]], mats)
         THEN <<[cmd |-> "select", node |-> k],
                [cmd |-> "hyperShade", assign |-> d[order[j]]]>>
         ELSE ItemCallsBreak(k, key, d, order, j + 1, mats)

\* ItemCalls without the re.search test
RECURSIVE ItemCallsNoMatch(_, _, _, _, _, _)
ItemCallsNoMatch(k, key, d, order, j, mats) ==
    IF j > Len(order) THEN <<>>
    ELSE IF objExists(d[order[j]], mats)
         THEN <<[cmd |-> "select", node |-> k],
                [cmd |-> "hyperShade", assign |-> d[order[j]]]>>
              \o ItemCallsNoMatch(k, key, d, order, j + 1, mats)
         ELSE ItemCallsNoMatch(k, key, d, order, j + 1, mats)

\* ItemCalls without the objExists test
RECURSIVE ItemCallsNoExists(_, _, _, _, _, _)
ItemCallsNoExists(k, key, d, order, j, mats) ==
    IF j > Len(order) THEN <<>>
    ELSE IF re_search(order[j], key)
         THEN <<[cmd |-> "select", node |-> k],
                [cmd |-> "hyperShade", assign |-> d[order[j]]]>>
              \o ItemCallsNoExists(k, key, d, order, j + 1, mats)
         ELSE ItemCallsNoExists(k, key, d, order, j + 1, mats)

\* the inner loop when it looks at the first item only
ItemCallsFirstItem(k, key, d, order, j, mats) ==
    IF j > Len(order) \/ j > 1 THEN <<>>
    ELSE IF re_search(order[j], key) /\ objExists(d[order[j]], mats)
    THEN <<[cmd |-> "select", node |-> k], [cmd |-> "hyperShade", assign |-> d[order[j]]]>>
    ELSE <<>>

\* the inner loop over shader_hookups.iteritems(), from item j on, for node k:
\* the host commands it issues
RECURSIVE ItemCalls(_, _, _, _, _, _)
ItemCalls(k, key, d, order, j, mats) ==
    IF j > Len(order) THEN <<>>
    ELSE LET obj_pattern == order[j]
             shader == d[obj_pattern]
         IN IF re_search(obj_pattern, key) /\ objExists(shader, mats)
            THEN <<[cmd |-> "select", node |-> k],
                   [cmd |-> "hyperShade", assign |-> shader]>>
                 \o ItemCalls(k, key, d, order, j + 1, mats)
            ELSE ItemCalls(k, key, d, order, j + 1, mats)

\* the loop without the test of the child shape
RECURSIVE NodeWorkAnyShape(_, _, _, _, _, _, _)
NodeWorkAnyShape(nodes, n, node_type, ts, d, order, mats) ==
    IF n > Len(nodes) THEN <<>>
    ELSE <<[node |-> nodes[n], node_temp |-> KeyOf(ts, nodes[n]),
            cmds |-> ItemCalls(nodes[n], KeyOf(ts, nodes[n]), d, order, 1, mats)]>>
         \o NodeWorkAnyShape(nodes, n + 1, node_type, ts, d, order, mats)

\* the loop over nodes, from position n on: for every node that has a shape of
\* the type, its key and the host commands it issues
RECURSIVE NodeWork(_, _, _, _, _, _, _)
NodeWork(nodes, n, node_type, ts, d, order, mats) ==
    IF n > Len(nodes) THEN <<>>
    ELSE LET k == nodes[n]
             key == KeyOf(ts, k)
         IN (IF ts[k].shape # node_type THEN <<>>
             ELSE <<[node |-> k, node_temp |-> key,
                     cmds |-> ItemCalls(k, key, d, order, 1, mats)]>>)
            \o NodeWork(nodes, n + 1, node_type, ts, d, order, mats)

\* the host commands of the whole loop, in order
RECURSIVE Commands(_)
Commands(work) ==
    IF Len(work) = 0 THEN <<>> ELSE Head(work).cmds \o Commands(Tail(work))

\* the keys computed before the loop stops at host command fail (0: runs through);
\* before is the number of host commands of the nodes already passed
RECURSIVE KeysComputed(_, _, _)
KeysComputed(work, fail, before) ==
    IF Len(work) = 0 \/ (fail # 0 /\ before >= fail) THEN <<>>
    ELSE <<[node |-> Head(work).node, node_temp |-> Head(work).node_temp]>>
         \o KeysComputed(Tail(work), fail, before + Len(Head(work).cmds))

\* the scene after the host ran the commands cs: [shading, selection]
RECURSIVE RunCalls(_, _, _)
RunCalls(cs, sh, sel) ==
    IF Len(cs) = 0 THEN [shading |-> sh, selection |-> sel]
    ELSE LET c == Head(cs)
         IN IF c.cmd = "select" THEN RunCalls(Tail(cs), sh, c.node)
            ELSE RunCalls(Tail(cs),
                          [x \in DOMAIN sh |-> IF x = sel THEN c.assign ELSE sh[x]],
                          sel)

\* the orders in which a dict with key set S may be iterated
Orders(S) ==
    {o \in [1..Cardinality(S) -> S] : \A x, y \in 1..Cardinality(S) : o[x] = o[y] => x = y}

-----------------------------------------------------------------------------
(* Scenes *)

\* at most this many script nodes in a scene
MaxScriptNodes == 2

\* at most this many transforms in a scene
MaxTransforms == 2

ScriptNode(name, beforeScript) == [name |-> name, beforeScript |-> beforeScript]

Transform(long, shape) == [long |-> long, shape |-> shape]

ScriptNodePool ==
    { ScriptNode(<<"A", ":", SH, "a">>, <<"s1">>),
      ScriptNode(<<"A", ":", SH, "A">>, <<"s2">>),
      ScriptNode(<<SH, "a">>, <<"s2">>),
      ScriptNode(<<"A", ":", XG, SH, "c", "_", "d">>, <<"s1">>) }

TransformPool ==
    { Transform(<<"|", "a">>, "mesh"),
      Transform(<<"|", "a">>, "none"),
      Transform(<<"|", "A", ":", "a">>, "mesh"),
      Transform(<<"|", "b">>, "mesh"),
      Transform(<<"|", "c", "|", "d">>, "xgmDescription") }

MaterialPool ==
    { <<"A", ":", "s1">>, <<"B", ":", "s1">>, <<"A", ":", "s2">>, <<"s2">> }

\* the shaders that may be missing from a scene, one at a time
Missable == { <<"A", ":", "s1">>, <<"A", ":", "s2">> }

Collections == { <<"c">> }

\* the shader every transform starts with
InitialShader == <<"lambert1">>

\* no publish file was written
NoFile == [materials |-> {}, scriptNodes |-> <<>>, collection |-> None]

\* the loader hook was not called
NoExec == [actions |-> <<>>, at |-> 0, status |-> "idle", error |-> "none"]

\* no scene file, nothing on disk, nothing collected
NoSession == [step_id |-> 0, project_root |-> <<>>, geometry |-> FALSE,
              assemblies |-> <<>>, cameras |-> <<>>, caches |-> <<>>, rendered |-> <<>>,
              simcrv |-> <<>>, lightRig |-> <<>>]

SessionIdle ==
    /\ work_file = <<>>
    /\ disk = {}
    /\ palettes = <<>>
    /\ session = NoSession
    /\ parent_item = <<>>

HookIdle ==
    /\ action_instances = <<>>
    /\ exec = NoExec
    /\ trace = <<>>
    /\ references = <<>>

\* the sequences of at most n members of pool
SeqsOf(pool, n) == UNION {[1..m -> pool] : m \in 0..n}

\* no two members of the sequence are equal
Distinct(q) == \A x, y \in 1..Len(q) : q[x] = q[y] => x = y

\* a scene: script nodes of distinct names and transforms of distinct long
\* names, in any order, and the shaders of the pool, all or all but one
InitScene(nodePool, transformPool, materialPool) ==
    /\ scriptNodes \in {q \in SeqsOf(nodePool, MaxScriptNodes) :
                          Distinct([x \in 1..Len(q) |-> q[x].name])}
    /\ transforms \in {q \in SeqsOf(transformPool, MaxTransforms) :
                         Distinct([x \in 1..Len(q) |-> q[x].long])}
    /\ materials \in {materialPool} \cup {materialPool \ {m} : m \in Missable}
    /\ shading = [k \in 1..Len(transforms) |-> InitialShader]
    /\ selection = 0
    /\ calls = <<>>
    /\ keys = <<>>
    /\ shader_hookups = <<>>
    /\ items = <<>>
    /\ args = <<>>
    /\ published = NoFile
    /\ recorded = <<>>
    /\ pc = "ready"
    /\ HookIdle
    /\ SessionIdle

Init == InitScene(ScriptNodePool, TransformPool, MaterialPool)

(* Scenes of same-named objects under several namespaces and hierarchies *)

KeyScriptNodePool ==
    { ScriptNode(<<SH, "a">>, <<"s2">>),
      ScriptNode(<<"A", ":", SH, "g", "_", "a">>, <<"s1">>) }

KeyTransformPool ==
    { Transform(<<"|", "a">>, "mesh"),
      Transform(<<"|", "A", ":", "a">>, "mesh"),
      Transform(<<"|", "B", ":", "a">>, "mesh"),
      Transform(<<"|", "g", "|", "a">>, "mesh"),
      Transform(<<"|", "h", "|", "a">>, "mesh"),
      Transform(<<"|", "g", "|", "A", ":", "a">>, "mesh"),
      Transform(<<"|", "A", ":", "g", "|", "a">>, "mesh"),
      Transform(<<"|", "g", "_", "h", "|", "a">>, "mesh"),
      Transform(<<"|", "g", "|", "h", "_", "a">>, "mesh"),
      Transform(<<"|", "g", "|", "h", "|", "a">>, "mesh") }

InitKey == InitScene(KeyScriptNodePool, KeyTransformPool, MaterialPool)

(* Scenes of script nodes whose names hold ".", with objects whose keys fit *)
(* the bodies, or hold a piece that fits them                               *)

MetaScriptNodePool ==
    { ScriptNode(<<SH, "a", ".", "c">>, <<"s2">>),
      ScriptNode(<<"A", ":", SH, "a", "b", "c">>, <<"s1">>),
      ScriptNode(<<"A", ":", SH, ".", "b">>, <<"s2">>) }

MetaTransformPool ==
    { Transform(<<"|", "a", "b", "c">>, "mesh"),
      Transform(<<"|", "a", "_", "c">>, "mesh"),
      Transform(<<"|", "a", "b", "c", "d">>, "mesh"),
      Transform(<<"|", "a", "c">>, "mesh"),
      Transform(<<"|", "A", ":", "a", "B">>, "mesh"),
      Transform(<<"|", "b", "|", "a", "b", "c">>, "mesh") }

InitMeta == InitScene(MetaScriptNodePool, MetaTransformPool, MaterialPool)

(* Scenes for the orders of enumeration: markers of different bodies, of   *)
(* one body in two namespaces, and of bodies that differ in case            *)

OrderScriptNodePool ==
    { ScriptNode(<<"A", ":", SH, "a">>, <<"s1">>),
      ScriptNode(<<"B", ":", SH, "a">>, <<"s1">>),
      ScriptNode(<<"A", ":", SH, "b">>, <<"s2">>),
      ScriptNode(<<SH, "A">>, <<"s2">>) }

OrderTransformPool ==
    { Transform(<<"|", "a">>, "mesh"),
      Transform(<<"|", "b">>, "mesh"),
      Transform(<<"|", "g", "|", "b">>, "mesh") }

InitOrder == InitScene(OrderScriptNodePool, OrderTransformPool, MaterialPool)

(* Scenes of script nodes for the scan: the same local names in several     *)
(* namespaces, the prefix once or twice in a name, other script nodes       *)

ScanLocalNames ==
    { <<SH, "a">>, <<SH, "A">>, <<SH, "a", SH>>, <<XG, SH, "a">>, <<"x">> }

ScanNamespaces == { <<>>, <<"A", ":">>, <<"B", ":">> }

ScanScriptNodePool ==
    { ScriptNode(ns \o nm, sh) :
        ns \in ScanNamespaces, nm \in ScanLocalNames, sh \in {<<"s1">>, <<"s2">>} }

InitScan == InitScene(ScanScriptNodePool, {}, MaterialPool)

-----------------------------------------------------------------------------
(* Operations *)

Prefixes == {MeshPrefix, XgPrefix}

\* a call of _shader_hookup_data(hookup_prefix)
ShaderHookupData ==
    /\ pc = "ready"
    /\ \E hookup_prefix \in Prefixes :
          /\ shader_hookups' = shader_hookup_data(scriptNodes, hookup_prefix)
          /\ args' = [fn |-> "_shader_hookup_data", hookup_prefix |-> hookup_prefix]
    /\ pc' = "returned"
    /\ UNCHANGED <<scriptNodes, transforms, materials, shading, selection, calls, keys,
                   items, published, recorded>>
    /\ UNCHANGED hookVars
    /\ UNCHANGED sessionVars

\* the candidates of a pass: nodes
nodes_of(ts, node_type, collection) ==
    IF node_type = "mesh" THEN ls_transforms(ts)
    ELSE xg_descriptions(ts, 1, collection)

\* Precondition without the test of collection
PreconditionNoCollectionTest(node_type, collection, xgenm) ==
    IF node_type = "xgmDescription" /\ ~xgenm THEN "ImportError" ELSE "ok"

\* the precondition failures of the hair variant
Precondition(node_type, collection, xgenm) ==
    IF node_type = "xgmDescription" /\ ~xgenm THEN "ImportError"
    ELSE IF node_type = "xgmDescription" /\ collection = None
    THEN "The keyword 'collection' is None!"
    ELSE "ok"

\* the outcome of a pass that undoes its assignments when a host command fails
HookupShadersRunRollback(call, d, order, pre, work, planned, fail) ==
    LET done == IF fail = 0 THEN planned ELSE SubSeq(planned, 1, fail - 1)
        after == RunCalls(done, shading, selection)
    IN /\ shader_hookups' = d
       /\ items' = order
       /\ args' = [call EXCEPT !.error = IF pre # "ok" THEN pre
                                         ELSE IF fail # 0 THEN "host command failed"
                                         ELSE "none"]
       /\ calls' = calls \o done
       /\ keys' = keys \o KeysComputed(work, fail, 0)
       /\ shading' = IF fail = 0 THEN after.shading ELSE shading
       /\ selection' = after.selection
       /\ pc' = IF pre = "ok" /\ fail = 0 THEN "returned" ELSE "raised"

\* the outcome of _hookup_shaders once the work of its loop is known: fail is
\* the hyperShade command that fails in the host (0: none does)
HookupShadersRun(call, d, order, pre, work, planned, fail) ==
    LET done == IF fail = 0 THEN planned ELSE SubSeq(planned, 1, fail - 1)
        after == RunCalls(done, shading, selection)
    IN /\ shader_hookups' = d
       /\ items' = order
       /\ args' = [call EXCEPT !.error = IF pre # "ok" THEN pre
                                         ELSE IF fail # 0 THEN "host command failed"
                                         ELSE "none"]
       /\ calls' = calls \o done
       /\ keys' = keys \o KeysComputed(work, fail, 0)
       /\ shading' = after.shading
       /\ selection' = after.selection
       /\ pc' = IF pre = "ok" /\ fail = 0 THEN "returned" ELSE "raised"

\* a call of _hookup_shaders(hookup_prefix, node_type, collection) in the scene
\* with script nodes nodes and shaders mats; xgenm tells whether "import xgenm"
\* succeeds (the mesh variant does not import it), order is the iteration order
\* of the dict
HookupShadersCall(nodes, mats, hookup_prefix, node_type, collection, xgenm) ==
    LET pre == Precondition(node_type, collection, xgenm)
        call == [fn |-> "_hookup_shaders", hookup_prefix |-> hookup_prefix,
                 node_type |-> node_type, collection |-> collection,
                 xgenm |-> xgenm, error |-> "none"]
    IN \E d \in {shader_hookup_data(nodes, hookup_prefix)} :
       \E order \in Orders(DOMAIN d) :
       \E work \in {IF pre # "ok" THEN <<>>
                    ELSE NodeWork(nodes_of(transforms, node_type, collection), 1,
                                  node_type, transforms, d, order, mats)} :
       \E planned \in {Commands(work)} :
       \E fail \in {0} \cup {c \in 1..Len(planned) : planned[c].cmd = "hyperShade"} :
          HookupShadersRun(call, d, order, pre, work, planned, fail)

HookupShaders ==
    /\ pc = "ready"
    /\ \E hookup_prefix \in Prefixes, node_type \in {"mesh", "xgmDescription"},
          collection \in Collections \cup {None}, xgenm \in BOOLEAN :
          /\ node_type = "mesh" => (collection = None /\ xgenm)
          /\ HookupShadersCall(scriptNodes, materials, hookup_prefix, node_type,
                               collection, xgenm)
    /\ UNCHANGED <<scriptNodes, transforms, materials, published, recorded>>
    /\ UNCHANGED hookVars
    /\ UNCHANGED sessionVars

Next == ShaderHookupData \/ HookupShaders

Spec == Init /\ [][Next]_vars

SpecKey == InitKey /\ [][Next]_vars

SpecMeta == InitMeta /\ [][Next]_vars

SpecOrder == InitOrder /\ [][Next]_vars

NextScan == ShaderHookupData

SpecScan == InitScan /\ [][NextScan]_vars

-----------------------------------------------------------------------------
(* MayaXGenShaderPublishPlugin.publish, and _create_reference of the file it *)
(* writes                                                                    *)

\* the host names a node: a character a node name cannot hold becomes "_"
Sanitize(name) == [c \in 1..Len(name) |-> IF name[c] = "|" THEN "_" ELSE name[c]]

\* the digits the host appends to a name that is taken
Digits == <<"1", "2", "3", "4", "5", "6", "7", "8", "9">>

\* the name the host gives a new node asked to be called name
UniqueName(name, taken) ==
    IF name \notin taken THEN name
    ELSE LET free == {i \in 1..Len(Digits) : Append(name, Digits[i]) \notin taken}
         IN Append(name, Digits[CHOOSE i \in free : \A j \in free : i <= j])

\* the marker name publish asks for, for the object with long name obj
script_node_name_of(obj) ==
    LET rooted == IF StartsWith(obj, <<"|">>) THEN Tail(obj) ELSE obj
        sp_name_space == Split(rooted, "|")
        name == [c \in 1..Len(sp_name_space) |-> Last(Split(sp_name_space[c], ":"))]
    IN XgPrefix \o Join(name, "|")

\* the shading groups of the descriptions of the collection
shading_groups_of(ts, sh, collection) ==
    LET descriptions == xg_descriptions(ts, 1, collection)
    IN {sh[descriptions[j]] : j \in 1..Len(descriptions)}

\* the orders in which publish may visit the members of the shading groups:
\* group after group, the members of a group in the order of its set
PublishOrders(ts, sh, collection) ==
    LET members == {k \in 1..Len(ts) : sh[k] \in shading_groups_of(ts, sh, collection)}
    IN {o \in Orders(members) :
           \A x, y, z \in 1..Len(o) :
               (x < y /\ y < z /\ sh[o[x]] = sh[o[z]]) => sh[o[y]] = sh[o[x]]}

\* cmds.scriptNode(name=script_node_name, beforeScript=shader) for each object
\* of todo from position k on: the script nodes of the scene and what publish
\* recorded
RECURSIVE CreateScriptNodes(_, _, _, _, _, _)
CreateScriptNodes(todo, k, ts, sh, nodes, rec) ==
    IF k > Len(todo) THEN [scriptNodes |-> nodes, recorded |-> rec]
    ELSE LET obj == todo[k]
             taken == {nodes[j].name : j \in 1..Len(nodes)}
             script_node == UniqueName(Sanitize(script_node_name_of(ts[obj].long)), taken)
         IN CreateScriptNodes(todo, k + 1, ts, sh,
                              Append(nodes, ScriptNode(script_node, sh[obj])),
                              Append(rec, [obj |-> obj, node |-> script_node,
                                           shader |-> sh[obj]]))

\* _clean_shader_hookup_script_nodes(): the script nodes that stay
RECURSIVE clean_shader_hookup_script_nodes(_)
clean_shader_hookup_script_nodes(nodes) ==
    IF nodes = <<>> THEN <<>>
    ELSE (IF StartsWith(Head(nodes).name, XgPrefix) THEN <<>> ELSE <<Head(nodes)>>)
         \o clean_shader_hookup_script_nodes(Tail(nodes))

\* publish(settings, item) for the item of a collection; xgenm tells whether
\* "import xgenm" succeeds, exported whether the host writes the file
PublishXGenShader ==
    /\ pc = "ready"
    /\ \E collection \in Collections, xgenm \in BOOLEAN, exported \in BOOLEAN :
          LET call == [fn |-> "publish", collection |-> collection, xgenm |-> xgenm,
                       error |-> "none"]
              shaders == shading_groups_of(transforms, shading, collection)
          IN IF ~xgenm \/ shaders = {}
             THEN /\ exported
                  /\ args' = call
                  /\ pc' = "returned"
                  /\ UNCHANGED <<scriptNodes, selection, published, recorded>>
             ELSE \E todo \in PublishOrders(transforms, shading, collection) :
                     LET made == CreateScriptNodes(todo, 1, transforms, shading,
                                                   scriptNodes, <<>>)
                         script_nodes == SubSeq(made.scriptNodes, Len(scriptNodes) + 1,
                                                Len(made.scriptNodes))
                     IN /\ recorded' = made.recorded
                        /\ selection' = 0
                        /\ IF exported
                           THEN /\ published' = [materials |-> shaders,
                                                 scriptNodes |-> script_nodes,
                                                 collection |-> collection]
                                /\ scriptNodes' =
                                       clean_shader_hookup_script_nodes(made.scriptNodes)
                                /\ args' = call
                                /\ pc' = "published"
                           ELSE /\ scriptNodes' = made.scriptNodes
                                /\ args' = [call EXCEPT !.error = "host command failed"]
                                /\ pc' = "raised"
                                /\ UNCHANGED published
    /\ UNCHANGED <<transforms, materials, shading, calls, keys, shader_hookups, items>>
    /\ UNCHANGED hookVars
    /\ UNCHANGED sessionVars

\* the namespaces _create_reference makes from the name of the publish
ReferenceNamespaces == { <<"N">> }

\* _create_reference(path, sg_publish_data) of a published "MAYA XGShader"
\* file whose name gives the collection: the nodes of the file come into the
\* scene under the namespace, then _hookup_shaders runs
CreateReferenceXGShader ==
    /\ pc = "published"
    /\ \E namespace \in ReferenceNamespaces, xgenm \in BOOLEAN :
          LET referenced == [k \in 1..Len(published.scriptNodes) |->
                                ScriptNode(namespace \o <<":">> \o published.scriptNodes[k].name,
                                           published.scriptNodes[k].beforeScript)]
              nodes == scriptNodes \o referenced
              mats == materials \cup {namespace \o <<":">> \o m : m \in published.materials}
          IN /\ scriptNodes' = nodes
             /\ materials' = mats
             /\ references' = Append(references, [path |-> published.collection,
                                                  namespace |-> namespace])
             /\ HookupShadersCall(nodes, mats, XgPrefix, "xgmDescription",
                                  published.collection, xgenm)
    /\ UNCHANGED <<transforms, published, recorded, action_instances, exec, trace>>
    /\ UNCHANGED sessionVars

\* the scenes of a publish: descriptions of the collection c and a mesh, each
\* with one of the shaders of the scene
DescriptionPool ==
    { Transform(<<"|", "c", "|", "d">>, "xgmDescription"),
      Transform(<<"|", "c", "|", "D">>, "xgmDescription"),
      Transform(<<"|", "c", "|", "A", ":", "d">>, "xgmDescription"),
      Transform(<<"|", "c", "|", "e">>, "xgmDescription"),
      Transform(<<"|", "b">>, "mesh") }

PublishedShaders == { <<"s1">>, <<"s2">> }

InitRoundTrip ==
    /\ scriptNodes = <<>>
    /\ transforms \in {q \in SeqsOf(DescriptionPool, MaxTransforms) : Distinct(q)}
    /\ materials = PublishedShaders \cup {InitialShader}
    /\ shading \in [1..Len(transforms) -> PublishedShaders]
    /\ selection = 0
    /\ calls = <<>>
    /\ keys = <<>>
    /\ shader_hookups = <<>>
    /\ items = <<>>
    /\ args = <<>>
    /\ published = NoFile
    /\ recorded = <<>>
    /\ pc = "ready"
    /\ HookIdle
    /\ SessionIdle

NextRoundTrip == PublishXGenShader \/ CreateReferenceXGShader

SpecRoundTrip == InitRoundTrip /\ [][NextRoundTrip]_vars

-----------------------------------------------------------------------------
(* MayaActions.generate_actions *)

\* at most this many actions in a list of actions
MaxActions == 2

\* x in l, for a list l
In(x, l) == \E i \in 1..Len(l) : l[i] = x

\* an action instance: a dict with name, params, caption and description
ActionInstance(name, caption, description) ==
    [name |-> name, params |-> None, caption |-> caption, description |-> description]

\* the test of the "udim_texture_node" branch, without the version
udim_any_version(maya_version) == TRUE

\* the test of the "udim_texture_node" branch: Maya 2015 or later
udim_loadable(maya_version) == maya_version >= 2015

\* generate_actions(sg_publish_data, actions, ui_area) in a host whose
\* _get_maya_version() is maya_version
generate_actions(actions, maya_version) ==
    (IF In("reference", actions)
     THEN <<ActionInstance("reference", "Create Reference",
               "This will add the item to the scene as a standard reference.")>>
     ELSE <<>>)
    \o (IF In("import", actions)
        THEN <<ActionInstance("import", "Import into Scene",
                  "This will import the item into the current scene.")>>
        ELSE <<>>)
    \o (IF In("link", actions)
        THEN <<ActionInstance("link", "Link File Path",
                  "This will link the file with related objects.")>>
        ELSE <<>>)
    \o (IF In("texture_node", actions)
        THEN <<ActionInstance("texture_node", "Create Texture Node",
                  "Creates a file texture node for the selected item..")>>
        ELSE <<>>)
    \o (IF In("udim_texture_node", actions) /\ udim_loadable(maya_version)
        THEN <<ActionInstance("udim_texture_node", "Create Texture Node",
                  "Creates a file texture node for the selected item..")>>
        ELSE <<>>)
    \o (IF In("image_plane", actions)
        THEN <<ActionInstance("image_plane", "Create Image Plane",
                  "Creates an image plane for the selected item..")>>
        ELSE <<>>)

\* the action names of the app configuration: the six of the hook and one it
\* does not know
ActionNames ==
    {"reference", "import", "link", "texture_node", "udim_texture_node", "image_plane",
     "download"}

\* what _get_maya_version() gives: 0 when the host's version string has no
\* leading number
MayaVersions == {0, 2014, 2015, 2016}

InitActions == InitScene({}, {}, {})

\* a call of generate_actions(sg_publish_data, actions, ui_area)
GenerateActions ==
    /\ pc = "ready"
    /\ \E actions \in SeqsOf(ActionNames, MaxActions), maya_version \in MayaVersions :
          /\ action_instances' = generate_actions(actions, maya_version)
          /\ args' = [fn |-> "generate_actions", actions |-> actions,
                      maya_version |-> maya_version]
    /\ pc' = "returned"
    /\ UNCHANGED <<scriptNodes, transforms, materials, shading, selection, calls, keys,
                   shader_hookups, items, published, recorded, exec, trace, references>>
    /\ UNCHANGED sessionVars

NextActions == GenerateActions

SpecActions == InitActions /\ [][NextActions]_vars

-----------------------------------------------------------------------------
(* MayaActions.execute_multiple_actions and execute_action                   *)
(*                                                                           *)
(* A publish is [file, type, step, namespace, scriptNodes, materials]: the   *)
(* name of its file, its published_file_type, the pipeline step of its task, *)
(* the namespace its name gives, and the nodes of the file.  "_GRM" is one   *)
(* symbol of a file name.  A step of the trace is [at, op, ...]: the action  *)
(* of the list that made it and the function called.                         *)

GRM == "_GRM"

Publish(file, type, step, namespace, nodes, mats) ==
    [file |-> file, type |-> type, step |-> step, namespace |-> namespace,
     scriptNodes |-> nodes, materials |-> mats]

ShaderNetworkFile ==
    Publish(<<"a", "_", "s", "h", "d">>, "Maya Shader Network", 20, <<"M">>,
            <<ScriptNode(<<SH, "a">>, <<"s1">>)>>, {<<"s1">>})

XGShaderFile ==
    Publish(<<"c", GRM, "_", "s", "h", "d">>, "MAYA XGShader", 150, <<"N">>,
            <<ScriptNode(<<XG, SH, "c", "_", "d">>, <<"s2">>)>>, {<<"s2">>})

XGShaderFileMisnamed ==
    Publish(<<"c", "_", "s", "h", "d">>, "MAYA XGShader", 20, <<"N">>,
            <<ScriptNode(<<XG, SH, "c", "_", "d">>, <<"s2">>)>>, {<<"s2">>})

CameraFile == Publish(<<"c", "a", "m">>, "MAYA Camera", 35, <<"K">>, <<>>, {})

LayoutFile == Publish(<<"l", "a", "y">>, "Maya Scene", 35, <<"L">>, <<>>, {<<"s1">>})

RigFile == Publish(<<"r", "i", "g">>, "Maya Scene", 144, <<"R">>, <<>>, {<<"s1">>})

\* an action of the list given to execute_multiple_actions
SingleAction(name, publish) == [name |-> name, sg_publish_data |-> publish, params |-> None]

\* the actions the loader app is asked to execute
LoadActions ==
    { SingleAction("reference", ShaderNetworkFile),
      SingleAction("reference", XGShaderFile),
      SingleAction("reference", XGShaderFileMisnamed),
      SingleAction("reference", CameraFile),
      SingleAction("reference", LayoutFile),
      SingleAction("import", RigFile),
      SingleAction("texture_node", RigFile),
      SingleAction("download", RigFile) }

\* the steps of the trace made for the action at position at
Tagged(steps, at) == [i \in 1..Len(steps) |-> [at |-> at] @@ steps[i]]

\* a step: a call of the function op
Step(op) == [op |-> op]

\* the steps for which the render preset is loaded
import_preset_step == {150, 155, 7, 144}

\* the part of execute_action after the handler when the preset is loaded
\* for every step
PostStepsAnyStep(publish, fail, json) ==
    [steps |-> <<Step("update_scene_time"),
                 [op |-> "find_one", step |-> publish.step],
                 Step("os.listdir"), Step("_load_render_setting"),
                 Step("update_resolution")>>,
     error |-> "none"]

\* the part of execute_action after the handler: [steps, error].  fail names
\* the call that raises ("none": no call does); json tells whether the
\* lightRig folder lists a ".json" file
PostSteps(publish, fail, json) ==
    LET time == <<Step("update_scene_time")>>
        query == time \o <<[op |-> "find_one", step |-> publish.step]>>
        listed == query \o <<Step("os.listdir")>>
        preset == listed \o <<Step("_load_render_setting")>>
        Then(made) == IF fail = "update_resolution"
                      THEN [steps |-> made \o <<Step("update_resolution")>>,
                            error |-> "update_resolution"]
                      ELSE [steps |-> made \o <<Step("update_resolution")>>,
                            error |-> "none"]
    IN IF fail = "update_scene_time" THEN [steps |-> time, error |-> fail]
       ELSE IF fail = "find_one" THEN [steps |-> query, error |-> fail]
       ELSE IF publish.step \notin import_preset_step THEN Then(query)
       ELSE IF fail = "os.listdir" THEN [steps |-> listed, error |-> fail]
       ELSE IF ~json THEN Then(listed)
       ELSE IF fail = "_load_render_setting" THEN [steps |-> preset, error |-> fail]
       ELSE Then(preset)

\* the calls of execute_action after the handler that may raise
PostFailures ==
    {"none", "update_scene_time", "find_one", "os.listdir", "_load_render_setting",
     "update_resolution"}

\* the loop when it goes on to the next action after an error
FinishAndGoOn(steps, error, post) ==
    /\ trace' = trace \o Tagged(IF error = "none" THEN steps \o post.steps ELSE steps,
                                exec.at)
    /\ exec' = [exec EXCEPT
                   !.at = @ + 1,
                   !.status = IF exec.at = Len(exec.actions)
                              THEN (IF error = "none" /\ post.error = "none"
                                    THEN "returned" ELSE "raised")
                              ELSE "executing",
                   !.error = IF error = "none" THEN post.error ELSE error]

\* execute_action ends for the action at exec.at: the handler made the steps
\* steps and raised error ("none": it returned); post is what follows it
Finish(steps, error, post) ==
    LET made == IF error = "none" THEN steps \o post.steps ELSE steps
        raised == IF error = "none" THEN post.error ELSE error
    IN /\ trace' = trace \o Tagged(made, exec.at)
       /\ exec' = [exec EXCEPT
                      !.at = IF raised = "none" THEN @ + 1 ELSE @,
                      !.status = IF raised # "none" THEN "raised"
                                 ELSE IF exec.at = Len(exec.actions) THEN "returned"
                                 ELSE "executing",
                      !.error = raised]

\* a call of execute_multiple_actions(actions): the loop is entered
ExecuteMultipleActions ==
    /\ exec.status = "idle"
    /\ \E actions \in SeqsOf(LoadActions, MaxActions) :
          exec' = [actions |-> actions, at |-> 1,
                   status |-> IF actions = <<>> THEN "returned" ELSE "executing",
                   error |-> "none"]
    /\ UNCHANGED <<scriptNodes, transforms, materials, shading, selection, calls, keys,
                   shader_hookups, items, args, published, recorded, pc,
                   action_instances, trace, references>>
    /\ UNCHANGED sessionVars

\* the handlers of execute_action that make a node for the file
NodeHandlers ==
    [texture_node |-> "_create_texture_node",
     udim_texture_node |-> "_create_udim_texture_node",
     image_plane |-> "_create_image_plane",
     link |-> "_do_link"]

\* execute_action(name, params, sg_publish_data) for a name whose handler makes
\* a node for the file, or for a name without a handler
ExecuteOther ==
    /\ exec.status = "executing"
    /\ exec.actions[exec.at].name \notin {"reference", "import"}
    /\ \E fail \in PostFailures \cup {"handler"}, json \in BOOLEAN :
          LET single_action == exec.actions[exec.at]
              name == single_action.name
              post == PostSteps(single_action.sg_publish_data, fail, json)
          IN IF name \in DOMAIN NodeHandlers
             THEN Finish(<<Step(NodeHandlers[name])>>,
                         IF fail = "handler" THEN NodeHandlers[name] ELSE "none", post)
             ELSE fail # "handler" /\ Finish(<<>>, "none", post)
    /\ UNCHANGED <<scriptNodes, transforms, materials, shading, selection, calls, keys,
                   shader_hookups, items, args, published, recorded, pc,
                   action_instances, references>>
    /\ UNCHANGED sessionVars

\* the steps of the preset among those of the import
import_step_with_rig == {35, 144}

\* the steps for which _create_reference imports the file
import_step == {35}

\* the names of the nodes of the scene, for cmds.objExists(collection)
SceneNames(ts, nodes, mats) ==
    mats \cup {nodes[k].name : k \in 1..Len(nodes)}
         \cup UNION {{Segments(ts[k].long)[j] : j \in 1..Len(Segments(ts[k].long))} :
                        k \in 1..Len(ts)}

\* the script nodes nodes with those of a file added under the namespace: the
\* host gives a name that is taken a digit
RECURSIVE AddScriptNodes(_, _, _)
AddScriptNodes(nodes, added, namespace) ==
    IF added = <<>> THEN nodes
    ELSE AddScriptNodes(
             Append(nodes,
                    ScriptNode(UniqueName(namespace \o Head(added).name,
                                          {nodes[k].name : k \in 1..Len(nodes)}),
                               Head(added).beforeScript)),
             Tail(added), namespace)

\* the script nodes that are not of the namespace
RECURSIVE WithoutNamespace(_, _)
WithoutNamespace(nodes, namespace) ==
    IF nodes = <<>> THEN <<>>
    ELSE (IF StartsWith(Head(nodes).name, namespace \o <<":">>) THEN <<>>
          ELSE <<Head(nodes)>>)
         \o WithoutNamespace(Tail(nodes), namespace)

\* the test of the path that is never true
missing_never(exists) == FALSE

\* "if not os.path.exists(path)": exists tells whether the path is on disk
missing(exists) == ~exists

\* the call of os.path.exists(path) and its result
Exists(exists) == [op |-> "os.path.exists", result |-> exists]

\* the sequence q without its element at position r
Without(q, r) == SubSeq(q, 1, r - 1) \o SubSeq(q, r + 1, Len(q))

\* _do_import(path, sg_publish_data) in the scene with script nodes nodes and
\* shaders mats: [steps, error, scriptNodes, materials].  exists tells whether
\* the path is on disk, fail names the call that raises, merged whether
\* removeAllNameSpace() brought the imported nodes to the root namespace (the
\* script is not part of the hooks, and its errors are passed over)
do_import(publish, exists, fail, merged, nodes, mats) ==
    LET same == [scriptNodes |-> nodes, materials |-> mats]
        namespace == IF publish.type = "MAYA XGGeometry" \/ merged THEN <<>>
                     ELSE publish.namespace \o <<":">>
        called == <<Step("_do_import"), Exists(exists)>>
    IN IF missing(exists)
       THEN [steps |-> called, error |-> "File not found on disk"] @@ same
       ELSE IF publish.type = "Maya XGen"
       THEN [steps |-> called \o <<Step("_hookup_xgen")>>,
             error |-> IF fail = "_hookup_xgen" THEN fail ELSE "none"] @@ same
       ELSE IF fail = "cmds.file import"
       THEN [steps |-> called \o <<Step("cmds.file import")>>, error |-> fail] @@ same
       ELSE [steps |-> called \o <<Step("cmds.file import"), Step("removeAllNameSpace")>>,
             error |-> "none",
             scriptNodes |-> AddScriptNodes(nodes, publish.scriptNodes, namespace),
             materials |-> mats \cup {namespace \o m : m \in publish.materials}]

\* the calls of _do_import that may raise
ImportFailures == {"_hookup_xgen", "cmds.file import"}

\* execute_action(name, params, sg_publish_data) for the name "import"
ExecuteImport ==
    /\ exec.status = "executing"
    /\ exec.actions[exec.at].name = "import"
    /\ \E exists \in BOOLEAN, fail \in PostFailures \cup ImportFailures,
          merged \in BOOLEAN, json \in BOOLEAN :
          LET publish == exec.actions[exec.at].sg_publish_data
              done == do_import(publish, exists, fail, merged, scriptNodes, materials)
          IN /\ scriptNodes' = done.scriptNodes
             /\ materials' = done.materials
             /\ Finish(done.steps, done.error, PostSteps(publish, fail, json))
    /\ UNCHANGED <<transforms, shading, selection, calls, keys, shader_hookups, items,
                   args, published, recorded, pc, action_instances, references>>
    /\ UNCHANGED sessionVars

\* the type of the camera files taken for that of the shader files
shader_type_camera == "MAYA Camera"

\* the type of the files whose shaders are hooked up to the meshes
shader_type == "Maya Shader Network"

\* the type of the files whose shaders are hooked up to the descriptions
xgshader_type == "MAYA XGShader"

\* no pass of _hookup_shaders is made
NoPass == UNCHANGED <<shading, selection, calls, keys, shader_hookups, items, args, pc>>

\* the calls of _create_reference that may raise, those of the pass apart
ReferenceFailures == {"find_one of _create_reference", "createReference"}

\* execute_action(name, params, sg_publish_data) for the name "reference".
\* exists tells whether the path is on disk, fail names the call that raises,
\* xgenm whether "import xgenm" succeeds; cmds.file(path, rr=True) removes one
\* of the references of the path, the host says which
ExecuteReference ==
    /\ exec.status = "executing"
    /\ exec.actions[exec.at].name = "reference"
    /\ \E exists \in BOOLEAN,
          fail \in PostFailures \cup ImportFailures \cup ReferenceFailures,
          merged \in BOOLEAN, json \in BOOLEAN, xgenm \in BOOLEAN :
          LET publish == exec.actions[exec.at].sg_publish_data
              post == PostSteps(publish, fail, json)
              called == <<Step("_create_reference"), Exists(exists)>>
              queried == IF publish.type = "MAYA Camera" THEN called
                         ELSE called \o <<[op |-> "find_one", step |-> publish.step]>>
              made == queried \o <<Step("createReference")>>
              namespace == UniqueName(publish.namespace,
                                      {references[r].namespace : r \in 1..Len(references)})
              nodes == AddScriptNodes(scriptNodes, publish.scriptNodes, namespace \o <<":">>)
              mats == materials \cup {namespace \o <<":">> \o m : m \in publish.materials}
              refs == Append(references, [path |-> publish.file, namespace |-> namespace])
              collection == Head(Split(publish.file, GRM))
              Hookup(hookup_prefix, c) ==
                  <<[op |-> "_hookup_shaders", hookup_prefix |-> hookup_prefix,
                     collection |-> c]>>
              imports == publish.type # "MAYA Camera" /\ publish.step \in import_step
          IN \* an input that is not read has one value
             /\ ~exists => fail = "none" /\ merged /\ xgenm /\ json
             /\ (exists /\ ~imports) => merged /\ fail \notin ImportFailures
             /\ (exists /\ imports) => fail # "createReference"
             /\ publish.type = "MAYA Camera" => fail # "find_one of _create_reference"
             /\ publish.type # xgshader_type => xgenm
             /\ publish.step \notin import_preset_step =>
                    json /\ fail \notin {"os.listdir", "_load_render_setting"}
             /\ IF missing(exists)
                THEN /\ Finish(called, "File not found on disk", post)
                     /\ NoPass
                     /\ UNCHANGED <<scriptNodes, materials, references>>
                ELSE IF publish.type # "MAYA Camera" /\ fail = "find_one of _create_reference"
                THEN /\ Finish(queried, fail, post)
                     /\ NoPass
                     /\ UNCHANGED <<scriptNodes, materials, references>>
                ELSE IF publish.type # "MAYA Camera" /\ publish.step \in import_step
                THEN LET done == do_import(publish, exists, fail, merged, scriptNodes, materials)
                     IN /\ scriptNodes' = done.scriptNodes
                        /\ materials' = done.materials
                        /\ Finish(queried \o done.steps, done.error, post)
                        /\ NoPass
                        /\ UNCHANGED references
                ELSE IF fail = "createReference"
                THEN /\ Finish(made, fail, post)
                     /\ NoPass
                     /\ UNCHANGED <<scriptNodes, materials, references>>
                ELSE IF publish.type = shader_type
                THEN /\ scriptNodes' = nodes
                     /\ materials' = mats
                     /\ references' = refs
                     /\ HookupShadersCall(nodes, mats, MeshPrefix, "mesh", None, TRUE)
                     /\ Finish(made \o Hookup(MeshPrefix, None),
                               IF pc' = "raised" THEN args'.error ELSE "none", post)
                ELSE IF publish.type # xgshader_type
                THEN /\ scriptNodes' = nodes
                     /\ materials' = mats
                     /\ references' = refs
                     /\ Finish(made, "none", post)
                     /\ NoPass
                ELSE IF \/ ~In(GRM, publish.file)
                        \/ ~objExists(collection, SceneNames(transforms, nodes, mats))
                THEN \E r \in {x \in 1..Len(refs) : refs[x].path = publish.file} :
                        /\ scriptNodes' = WithoutNamespace(nodes, refs[r].namespace)
                        /\ materials' =
                               {m \in mats : ~StartsWith(m, refs[r].namespace \o <<":">>)}
                        /\ references' = Without(refs, r)
                        /\ Finish(made \o <<Step("cmds.file rr")>>,
                                  IF ~In(GRM, publish.file)
                                  THEN "XGen shader file name error!"
                                  ELSE "collection dose not exists!", post)
                        /\ NoPass
                ELSE /\ scriptNodes' = nodes
                     /\ materials' = mats
                     /\ references' = refs
                     /\ HookupShadersCall(nodes, mats, XgPrefix, "xgmDescription",
                                          collection, xgenm)
                     /\ Finish(made \o Hookup(XgPrefix, collection),
                               IF pc' = "raised" THEN args'.error ELSE "none", post)
    /\ UNCHANGED <<transforms, published, recorded, action_instances>>
    /\ UNCHANGED sessionVars

\* the scenes of the loader: a mesh, with or without a collection c and its
\* description; no reference, or one of the misnamed hair shader file
LoaderTransforms ==
    { <<Transform(<<"|", "a">>, "mesh")>>,
      <<Transform(<<"|", "a">>, "mesh"),
        Transform(<<"|", "c", "|", "d">>, "xgmDescription")>> }

InitLoader ==
    /\ transforms \in LoaderTransforms
    /\ \E held \in BOOLEAN :
          /\ references = IF held THEN <<[path |-> XGShaderFileMisnamed.file,
                                          namespace |-> XGShaderFileMisnamed.namespace]>>
                          ELSE <<>>
          /\ scriptNodes = IF held
                           THEN AddScriptNodes(<<>>, XGShaderFileMisnamed.scriptNodes,
                                               XGShaderFileMisnamed.namespace \o <<":">>)
                           ELSE <<>>
          /\ materials = {InitialShader} \cup
                         (IF held THEN {XGShaderFileMisnamed.namespace \o <<":">> \o m :
                                           m \in XGShaderFileMisnamed.materials}
                          ELSE {})
    /\ shading = [k \in 1..Len(transforms) |-> InitialShader]
    /\ selection = 0
    /\ calls = <<>>
    /\ keys = <<>>
    /\ shader_hookups = <<>>
    /\ items = <<>>
    /\ args = <<>>
    /\ published = NoFile
    /\ recorded = <<>>
    /\ pc = "ready"
    /\ action_instances = <<>>
    /\ exec = NoExec
    /\ trace = <<>>
    /\ SessionIdle

NextLoader == ExecuteMultipleActions \/ ExecuteReference \/ ExecuteImport \/ ExecuteOther

SpecLoader == InitLoader /\ [][NextLoader]_vars

-----------------------------------------------------------------------------
(* The loader on files of every type and step *)

\* a shader file published from a task of step 35
ShaderNetworkLayoutFile ==
    Publish(<<"b", "_", "s", "h", "d">>, "Maya Shader Network", 35, <<"M">>,
            <<ScriptNode(<<SH, "a">>, <<"s1">>)>>, {<<"s1">>})

\* a camera published from a task outside step 35
CameraShotFile == Publish(<<"c", "a", "m", "2">>, "MAYA Camera", 20, <<"K">>, <<>>, {})

\* the actions of the loader on files of the types and steps _create_reference
\* tells apart
TypeActions ==
    { SingleAction("reference", ShaderNetworkFile),
      SingleAction("reference", ShaderNetworkLayoutFile),
      SingleAction("reference", CameraFile),
      SingleAction("reference", CameraShotFile),
      SingleAction("reference", RigFile),
      SingleAction("import", RigFile),
      SingleAction("download", RigFile) }

\* execute_multiple_actions(actions) with the actions among pool
ExecuteMultipleActionsFrom(pool) ==
    /\ exec.status = "idle"
    /\ \E actions \in SeqsOf(pool, MaxActions) :
          exec' = [actions |-> actions, at |-> 1,
                   status |-> IF actions = <<>> THEN "returned" ELSE "executing",
                   error |-> "none"]
    /\ UNCHANGED <<scriptNodes, transforms, materials, shading, selection, calls, keys,
                   shader_hookups, items, args, published, recorded, pc,
                   action_instances, trace, references>>
    /\ UNCHANGED sessionVars

ExecuteTypedActions == ExecuteMultipleActionsFrom(TypeActions)

NextTypes == ExecuteTypedActions \/ ExecuteReference \/ ExecuteImport \/ ExecuteOther

SpecTypes == InitLoader /\ [][NextTypes]_vars

-----------------------------------------------------------------------------
(* _hookup_xgen: the import of a collection beside the scene file *)

\* the separator of the collection name in a published file name
US == "__"

\* the folder of the collections under the folder of the scene
CollectionsDir == "/xgen/collections/"

\* os.path.dirname(path) and os.path.basename(path)
dirname(path) == Join(ButLast(Split(path, "/")), "/")

basename(path) == Last(Split(path, "/"))

\* (basename.split('__')[-1]).split('.')[0]
collection_of(path) == Head(Split(Last(Split(basename(path), US)), "."))

\* current_dir + "/xgen/collections/" + collection
collection_path_of(work, path) ==
    dirname(work) \o <<CollectionsDir>> \o collection_of(path)

\* a removal that leaves the directory
rmtree_kept(d, collection_path) == d

\* shutil.rmtree(collection_path) on the disk d
rmtree(d, collection_path) == d \ {collection_path}

\* the calls of _hookup_xgen in one run
MaxImports == 2

\* the published collection files: two versions of the collection x, and y
XgenFiles ==
    { <<"p", "/", "h", US, "x", ".", "xgen">>,
      <<"p", "/", "g", US, "x", ".", "xgen">>,
      <<"p", "/", "y", ".", "xgen">> }

\* the scene file: none, or a saved one
SavedScene == <<"w", "/", "s", ".", "ma">>

WorkFiles == {<<>>, SavedScene}

\* a scene without nodes, with the loader and the publisher idle
EmptyScene ==
    /\ scriptNodes = <<>>
    /\ transforms = <<>>
    /\ materials = {InitialShader}
    /\ shading = <<>>
    /\ selection = 0
    /\ calls = <<>>
    /\ keys = <<>>
    /\ shader_hookups = <<>>
    /\ items = <<>>
    /\ args = <<>>
    /\ published = NoFile
    /\ recorded = <<>>
    /\ pc = "ready"
    /\ HookIdle

sceneVars == <<scriptNodes, transforms, materials, shading, selection, calls, keys,
               shader_hookups, items, published, recorded, action_instances, exec,
               references>>

InitXgen ==
    /\ EmptyScene
    /\ work_file \in WorkFiles
    /\ disk \in SUBSET {collection_path_of(SavedScene, f) : f \in XgenFiles}
    /\ palettes = <<>>
    /\ session = NoSession
    /\ parent_item = <<>>

\* the end of _hookup_xgen from importBindPalette on, on the disk d after the
\* steps done: the import may raise, and the host may create the directory
ImportBindPalette(path, d, done) ==
    \E fail \in BOOLEAN, made \in BOOLEAN :
       LET collection_path == collection_path_of(work_file, path)
           import == [op |-> "importBindPalette", collection |-> collection_of(path),
                      existed |-> collection_path \in d]
       IN /\ trace' = trace \o done \o <<import>>
          /\ IF fail
             THEN /\ pc' = "raised"
                  /\ args' = [fn |-> "_hookup_xgen", path |-> path,
                              error |-> "importBindPalette"]
                  /\ palettes' = palettes
                  /\ disk' = d
                  /\ ~made
             ELSE /\ pc' = "returned"
                  /\ args' = [fn |-> "_hookup_xgen", path |-> path, result |-> "True"]
                  /\ palettes' = Append(palettes, collection_of(path))
                  /\ disk' = IF made THEN d \cup {collection_path} ELSE d

\* _hookup_xgen(path), up to its return or to the warning box.  xgenm tells
\* whether "import xgenm" succeeds
HookupXgen ==
    /\ pc \in {"ready", "returned", "raised"}
    /\ Cardinality({n \in 1..Len(trace) : trace[n].op = "_hookup_xgen"}) < MaxImports
    /\ \E path \in XgenFiles, xgenm \in BOOLEAN :
          LET called == <<[op |-> "_hookup_xgen", path |-> path]>>
          IN IF ~xgenm
             THEN /\ pc' = "raised"
                  /\ args' = [fn |-> "_hookup_xgen", path |-> path,
                              error |-> "import xgenm"]
                  /\ trace' = trace \o called
                  /\ UNCHANGED <<disk, palettes>>
             ELSE IF work_file = <<>>
             THEN /\ pc' = "returned"
                  /\ args' = [fn |-> "_hookup_xgen", path |-> path, result |-> "None"]
                  /\ trace' = trace \o called \o <<Step("messageBox")>>
                  /\ UNCHANGED <<disk, palettes>>
             ELSE IF collection_path_of(work_file, path) \in disk
             THEN /\ pc' = "asked"
                  /\ args' = [fn |-> "_hookup_xgen", path |-> path]
                  /\ trace' = trace \o called \o <<Step("warningBox")>>
                  /\ UNCHANGED <<disk, palettes>>
             ELSE ImportBindPalette(path, disk, called)
    /\ UNCHANGED sceneVars
    /\ UNCHANGED <<work_file, session, parent_item>>

\* the user answers the warning box and _hookup_xgen goes on: with Ok the
\* directory is removed, which may raise, and the collection is imported
WarningBoxAnswered ==
    /\ pc = "asked"
    /\ \E ret \in {"Ok", "Cancel"}, removed \in BOOLEAN :
          LET answered == <<[op |-> "answered", ret |-> ret]>>
              collection_path == collection_path_of(work_file, args.path)
          IN IF ret # "Ok"
             THEN /\ pc' = "returned"
                  /\ args' = [fn |-> "_hookup_xgen", path |-> args.path,
                              result |-> "False"]
                  /\ trace' = trace \o answered
                  /\ removed
                  /\ UNCHANGED <<disk, palettes>>
             ELSE IF ~removed
             THEN /\ pc' = "raised"
                  /\ args' = [fn |-> "_hookup_xgen", path |-> args.path,
                              error |-> "shutil.rmtree"]
                  /\ trace' = trace \o answered \o <<Step("shutil.rmtree")>>
                  /\ UNCHANGED <<disk, palettes>>
             ELSE ImportBindPalette(args.path, rmtree(disk, collection_path),
                                    answered \o <<Step("shutil.rmtree")>>)
    /\ UNCHANGED sceneVars
    /\ UNCHANGED <<work_file, session, parent_item>>

NextXgen == HookupXgen \/ WarningBoxAnswered

SpecXgen == InitXgen /\ [][NextXgen]_vars

-----------------------------------------------------------------------------
(* MayaSessionCollector.process_current_session *)

RSProxyRig == "RSProxyRig"

\* an item of the publish tree, without children
Item(type, name) == [type |-> type, name |-> name, children |-> <<>>]

\* the members of the sequence q that are in the set S, in order
RECURSIVE Among(_, _)
Among(q, S) ==
    IF q = <<>> THEN <<>>
    ELSE (IF Head(q) \in S THEN <<Head(q)>> ELSE <<>>) \o Among(Tail(q), S)

\* one item of the type for each name
ItemsOf(type, names) == [k \in 1..Len(names) |-> Item(type, names[k])]

\* a scene named after the proxy rig that is taken for any other
is_proxy_never(filename) == FALSE

\* "RSProxyRig" in filename
is_proxy(filename) == In(RSProxyRig, filename)

\* the steps whose scenes give no maya.session.geometry item
no_geometry_steps == {138, 150, 155}

\* the items process_current_session creates under the session item, and the
\* error that ends it: [children, error].  path is the scene file, s the scene,
\* pal the collections of the scene, d the disk; xgenm tells whether "import
\* xgenm" succeeds and found whether the query of the published files answers
SessionChildren(path, s, pal, d, xgenm, found) ==
    LET isProxy == is_proxy(basename(path))
        step_id == s.step_id
        rendered == ItemsOf("file.image", s.rendered)
        onDisk == {c \in {pal[k] : k \in 1..Len(pal)} :
                      s.project_root \o <<CollectionsDir>> \o c \in d}
        xgen == IF xgenm /\ s.project_root \o <<CollectionsDir>> \in d
                THEN ItemsOf("maya.session.xgen", Among(pal, onDisk)) ELSE <<>>
        xgshader == IF xgenm
                    THEN [k \in 1..Len(pal) |->
                             Item("maya.session.xgshader", pal[k] \o <<"_Shader">>)]
                    ELSE <<>>
        hair == step_id = 138 /\ s.project_root # <<>>
        hairRaises == hair /\ xgenm /\ pal = <<>>
        xggeometry == IF xgenm THEN <<Item("maya.session.xggeometry", <<"g">>)>> ELSE <<>>
        first == rendered \o (IF hair THEN xgen \o xgshader ELSE <<>>)
        cameras == IF step_id \in {106, 35}
                   THEN ItemsOf("maya.session.camera", s.cameras) ELSE <<>>
        meshes == IF step_id \in {15} /\ ~isProxy
                  THEN ItemsOf("maya.session.mesh", s.assemblies) ELSE <<>>
        fbx == IF step_id \in {16, 136}
               THEN ItemsOf("maya.fbx.geometry", s.assemblies) ELSE <<>>
        simcrv == IF step_id \in {143}
                  THEN ItemsOf("maya.session.simcrv", s.simcrv) ELSE <<>>
        lightrig == ItemsOf("maya.session.lightrig", s.lightRig)
        geometry == IF step_id \notin no_geometry_steps /\ s.geometry /\ ~isProxy
                    THEN <<Item("maya.session.geometry", <<"All Session Geometry">>)>>
                    ELSE <<>>
        second == (IF hair THEN xggeometry ELSE <<>>) \o cameras \o meshes \o fbx
                      \o simcrv \o lightrig \o geometry
        caching == s.project_root # <<>> /\ ~isProxy
        fresh == {c \in {s.caches[k] : k \in 1..Len(s.caches)} : ~c.published}
        unpublished == Among(s.caches, fresh)
        alembic == [k \in 1..Len(unpublished) |-> Item("file.alembic", unpublished[k].file)]
    IN IF hairRaises
       THEN [children |-> first, error |-> "IndexError"]
       ELSE IF caching /\ ~found
       THEN [children |-> first \o second, error |-> "sg.find"]
       ELSE [children |-> first \o second \o (IF caching THEN alembic ELSE <<>>),
             error |-> "none"]

\* a scene without file that is taken for a saved one
unsaved_never(path) == FALSE

\* "if not path": the scene has no file path
unsaved(path) == path = <<>>

\* process_current_session(settings, parent_item)
ProcessCurrentSession ==
    /\ pc = "ready"
    /\ \E xgenm \in BOOLEAN, found \in BOOLEAN :
          IF unsaved(work_file)
          THEN /\ xgenm /\ found
               /\ pc' = "raised"
               /\ args' = [fn |-> "process_current_session",
                           error |-> "Please save the scene first."]
               /\ parent_item' = parent_item
          ELSE LET made == SessionChildren(work_file, session, palettes, disk, xgenm, found)
                   item == [type |-> "maya.session", name |-> basename(work_file),
                            children |-> made.children]
               IN /\ pc' = IF made.error = "none" THEN "returned" ELSE "raised"
                  /\ args' = [fn |-> "process_current_session", error |-> made.error]
                  /\ parent_item' = Append(parent_item, item)
    /\ UNCHANGED sceneVars
    /\ UNCHANGED <<trace, work_file, disk, palettes, session>>

\* the pipeline steps of the scenes
StepIds == {15, 16, 20, 35, 106, 136, 138, 143, 150, 155}

\* the scene files: none, a saved one, a proxy rig, and a scene in a folder
\* named after the proxy rig
ProxyScene == <<"w", "/", RSProxyRig, "_", "a", ".", "ma">>

SceneFiles == {<<>>, SavedScene, ProxyScene, <<RSProxyRig, "/", "s", ".", "ma">>}

\* the alembic files of the cache folder: none, a new one, a published one
CachePool ==
    { <<>>, <<[file |-> <<"c", ".", "abc">>, published |-> FALSE]>>,
      <<[file |-> <<"d", ".", "abc">>, published |-> TRUE]>> }

InitCollector ==
    /\ EmptyScene
    /\ work_file \in SceneFiles
    /\ palettes \in {<<>>, <<<<"x">>>>}
    /\ disk = {<<"w", CollectionsDir>>, <<"w", CollectionsDir, "x">>}
    /\ \E step_id \in StepIds, rooted \in BOOLEAN, geometry \in BOOLEAN,
          caches \in CachePool :
          session = [step_id |-> step_id,
                     project_root |-> IF rooted THEN <<"w">> ELSE <<>>,
                     geometry |-> geometry,
                     assemblies |-> IF geometry THEN <<<<"a">>>> ELSE <<>>,
                     cameras |-> <<<<"cam">>>>,
                     caches |-> caches,
                     rendered |-> <<<<"r", ".", "exr">>>>,
                     simcrv |-> <<<<"h", "_SIMCRV">>>>,
                     lightRig |-> <<<<"e", "_lightRig_">>>>]
    /\ parent_item \in {<<>>, <<Item("file.image", <<"i", ".", "png">>)>>}

NextCollector == ProcessCurrentSession

SpecCollector == InitCollector /\ [][NextCollector]_vars

-----------------------------------------------------------------------------
(* Vocabulary of the properties *)

\* a call of _shader_hookup_data has returned
DataReturned == pc = "returned" /\ args.fn = "_shader_hookup_data"

\* a call of _hookup_shaders has ended, by return or by an error
PassEnded == pc # "ready" /\ args.fn = "_hookup_shaders"

\* a call of _hookup_shaders has returned
PassReturned == pc = "returned" /\ args.fn = "_hookup_shaders"

\* the local name of script node k: what follows its last ":"
LocalName(k) == Last(Split(scriptNodes[k].name, ":"))

\* the namespace of script node k: what precedes its last ":"
Namespace(k) ==
    LET nm == scriptNodes[k].name
        cs == {c \in 1..Len(nm) : nm[c] = ":"}
    IN IF cs = {} THEN <<>>
       ELSE SubSeq(nm, 1, (CHOOSE c \in cs : \A e \in cs : e <= c) - 1)

\* script node k is a marker of prefix P: its local name is P + B
CarriesPrefix(k, P) ==
    /\ Len(LocalName(k)) >= Len(P)
    /\ \A c \in 1..Len(P) : LocalName(k)[c] = P[c]

\* the body B of marker k of prefix P
BodyOf(k, P) == SubSeq(LocalName(k), Len(P) + 1, Len(LocalName(k)))

\* the markers of prefix P
Markers(P) == {k \in 1..Len(scriptNodes) : CarriesPrefix(k, P)}

\* P occurs somewhere in B
Occurs(P, B) == \E c \in 1..Len(B) : c + Len(P) - 1 <= Len(B) /\ SubSeq(B, c, c + Len(P) - 1) = P

\* <marker's namespace> + ":" + <marker's payload>
ValueOf(k) == Namespace(k) \o <<":">> \o scriptNodes[k].beforeScript

Anchored(pat) == Len(pat) >= 2 /\ pat[1] = "^" /\ pat[Len(pat)] = "$"

\* the literal body of a collected pattern
Literal(pat) == SubSeq(pat, 2, Len(pat) - 1)

CaseFold(c) ==
    CASE c = "A" -> "a" [] c = "B" -> "b" [] c = "C" -> "c" [] c = "D" -> "d" [] OTHER -> c

\* two strings are equal, ignoring case
SameIgnoringCase(x, y) ==
    Len(x) = Len(y) /\ \A c \in 1..Len(x) : CaseFold(x[c]) = CaseFold(y[c])

\* the candidates of the pass that have a child shape of the expected type
Candidates ==
    LET nodes == nodes_of(transforms, args.node_type, args.collection)
    IN {nodes[n] : n \in {m \in 1..Len(nodes) : transforms[nodes[m]].shape = args.node_type}}

\* the positions of calls at which transform k is selected
Selects(k) == {c \in 1..Len(calls) : calls[c].cmd = "select" /\ calls[c].node = k}

\* transform k was selected and the shader assigned to it
Assigned(k, shader) ==
    \E c \in Selects(k) :
        c < Len(calls) /\ calls[c + 1].cmd = "hyperShade" /\ calls[c + 1].assign = shader

\* the positions of items whose pattern matches the key of transform k and whose
\* shader exists
Matching(k) ==
    {j \in 1..Len(items) : /\ re_search(items[j], KeyOf(transforms, k))
                           /\ objExists(shader_hookups[items[j]], materials)}

Rank(x, S) == Cardinality({y \in S : y <= x})

Untouched(k) == Selects(k) = {} /\ shading[k] = InitialShader

-----------------------------------------------------------------------------
(* Properties *)

\* C1 as stated: every marker P + B has its own entry in the mapping returned by
\* _shader_hookup_data(P): a pattern that matches B anchored and ignoring case,
\* with the value <namespace>:<payload> of that marker, for all markers at once.
C1_EveryMarkerHasItsEntry ==
    DataReturned =>
        \A k \in Markers(args.hookup_prefix) :
            \E pat \in DOMAIN shader_hookups :
                /\ Anchored(pat)
                /\ re_search(pat, BodyOf(k, args.hookup_prefix))
                /\ shader_hookups[pat] = ValueOf(k)

\* C1 amended: every marker P + B has an entry under the pattern "^" + B' + "$",
\* B' being B with every occurrence of P removed (so the pattern matches B when P
\* does not occur in B); its value is <namespace>:<payload> of the last marker,
\* in enumeration order, that gives this pattern; the mapping has no other entry.
C1_EntryOfLastMarkerPerPattern ==
    DataReturned =>
        LET P == args.hookup_prefix
            PatternOf(k) == <<"^">> \o Remove(BodyOf(k, P), P) \o <<"$">>
        IN /\ DOMAIN shader_hookups = {PatternOf(k) : k \in Markers(P)}
           /\ \A k \in Markers(P) :
                 LET same == {j \in Markers(P) : PatternOf(j) = PatternOf(k)}
                     last == CHOOSE j \in same : \A e \in same : e <= j
                 IN /\ shader_hookups[PatternOf(k)] = ValueOf(last)
                    /\ ~Occurs(P, BodyOf(k, P)) =>
                          re_search(PatternOf(k), BodyOf(k, P))

\* two markers of the prefix in different namespaces share a body, and the
\* mapping returned has one entry for them
C1_Witness ==
    /\ DataReturned
    /\ \E k, j \in Markers(args.hookup_prefix) :
          /\ k < j
          /\ Namespace(k) # Namespace(j)
          /\ LocalName(k) = LocalName(j)
          /\ shader_hookups[<<"^">> \o BodyOf(k, args.hookup_prefix) \o <<"$">>] = ValueOf(j)
          /\ ValueOf(k) # ValueOf(j)

\* C2: after a pass, every candidate with a shape of the expected type whose key
\* equals, ignoring case, the literal body of a collected pattern whose shader
\* exists was selected and assigned that shader.
C2_EqualKeyGetsShader ==
    PassReturned =>
        \A k \in Candidates : \A pat \in DOMAIN shader_hookups :
            ( /\ SameIgnoringCase(KeyOf(transforms, k), Literal(pat))
              /\ objExists(shader_hookups[pat], materials) )
            => Assigned(k, shader_hookups[pat])

\* a candidate whose key differs from the pattern's body in case only was
\* assigned the pattern's shader
C2_Witness ==
    /\ PassReturned
    /\ \E k \in Candidates : \E pat \in DOMAIN shader_hookups :
          /\ SameIgnoringCase(KeyOf(transforms, k), Literal(pat))
          /\ KeyOf(transforms, k) # Literal(pat)
          /\ Assigned(k, shader_hookups[pat])
          /\ shading[k] = shader_hookups[pat]

C4_NoMatchNoChange ==
    PassEnded =>
        \A k \in 1..Len(transforms) :
            (\A pat \in DOMAIN shader_hookups : ~re_search(pat, KeyOf(transforms, k)))
            => Untouched(k)

\* a pass that assigned one candidate left alone another one, of the expected
\* shape, that no collected pattern matches
C4_Witness ==
    /\ PassReturned
    /\ \E k, m \in Candidates :
          /\ \A pat \in DOMAIN shader_hookups : ~re_search(pat, KeyOf(transforms, k))
          /\ Untouched(k)
          /\ Selects(m) # {}

\* C5 as stated: when the shader of a record does not exist, the candidate whose
\* key matches the record's pattern is left unchanged.
C5_MissingShaderCandidateUnchanged ==
    PassReturned =>
        \A k \in Candidates : \A pat \in DOMAIN shader_hookups :
            ( /\ re_search(pat, KeyOf(transforms, k))
              /\ ~objExists(shader_hookups[pat], materials) )
            => Untouched(k)

\* C5 amended: a record whose shader does not exist assigns nothing and raises
\* nothing; a candidate is left unchanged when every record whose pattern matches
\* its key names a missing shader (another matching record whose shader exists
\* is still applied), and a pass in which no matching record has its shader
\* returns without a host command.
C5_MissingShaderSkipped ==
    PassEnded =>
        /\ \A c \in 1..Len(calls) :
              calls[c].cmd = "hyperShade" => objExists(calls[c].assign, materials)
        /\ \A k \in 1..Len(transforms) : Matching(k) = {} => Untouched(k)
        /\ ( /\ Precondition(args.node_type, args.collection, args.xgenm) = "ok"
             /\ \A k \in Candidates : Matching(k) = {} )
           => (pc = "returned" /\ calls = <<>>)

\* the only record that matches a candidate names a missing shader: the pass
\* returned and the candidate is unchanged
C5_Witness ==
    /\ PassReturned
    /\ \E k \in Candidates : \E pat \in DOMAIN shader_hookups :
          /\ re_search(pat, KeyOf(transforms, k))
          /\ ~objExists(shader_hookups[pat], materials)
          /\ Untouched(k)

\* C6: when no script node's local name starts with the prefix, a pass issues no
\* select and no assignment, whatever the candidates.
C6_NoMarkerNoCall ==
    PassEnded =>
        (Markers(args.hookup_prefix) = {} =>
            /\ calls = <<>>
            /\ \A k \in 1..Len(transforms) : shading[k] = InitialShader)

\* a pass over a scene with candidates and with markers of the other prefix only
C6_Witness ==
    /\ PassReturned
    /\ Markers(args.hookup_prefix) = {}
    /\ Len(scriptNodes) > 0
    /\ Candidates # {}
    /\ calls = <<>>

\* C7: in the hair variant, a pass without the hair API or without a collection
\* raises and assigns nothing.
C7_HairPreconditionFailsFast ==
    ( /\ PassEnded
      /\ args.node_type = "xgmDescription"
      /\ (~args.xgenm \/ args.collection = None) )
    => /\ pc = "raised"
       /\ calls = <<>>
       /\ keys = <<>>
       /\ \A k \in 1..Len(transforms) : shading[k] = InitialShader

\* a hair pass without a collection raised in a scene where a description has a
\* marker whose shader exists
C7_Witness ==
    /\ PassEnded
    /\ args.node_type = "xgmDescription"
    /\ args.xgenm
    /\ args.collection = None
    /\ pc = "raised"
    /\ \E k \in 1..Len(transforms) :
          /\ transforms[k].shape = "xgmDescription"
          /\ \E pat \in DOMAIN shader_hookups :
                /\ re_search(pat, KeyOf(transforms, k))
                /\ objExists(shader_hookups[pat], materials)

\* C8: a call of _shader_hookup_data changes no node, no shading and no
\* selection, issues no host command, returns, and returns the empty mapping
\* when no script node carries the prefix.
C8_ScanIsReadOnly ==
    [][ShaderHookupData =>
          /\ UNCHANGED <<scriptNodes, transforms, materials, shading, selection, calls,
                         published>>
          /\ pc' = "returned"
          /\ (\A k \in 1..Len(scriptNodes) : ~CarriesPrefix(k, args'.hookup_prefix))
                => shader_hookups' = <<>>]_vars

\* the scan of a scene that has script nodes, none of the prefix, returned the
\* empty mapping
C8_Witness ==
    /\ DataReturned
    /\ Len(scriptNodes) > 0
    /\ Markers(args.hookup_prefix) = {}
    /\ shader_hookups = <<>>

\* the namespace-stripped names of the segments of transform k
StrippedSegments(k) ==
    LET sg == Segments(transforms[k].long)
    IN [c \in 1..Len(sg) |-> Last(Split(sg[c], ":"))]

\* the leaf name of transform k, without its namespace
LeafName(k) == Last(StrippedSegments(k))

\* the namespace-stripped parent hierarchy of transform k
StrippedParents(k) == ButLast(StrippedSegments(k))

NoUnderscore(k) == \A c \in 1..Len(transforms[k].long) : transforms[k].long[c] # "_"

\* C9 as stated: two candidates with the same leaf name (which then differ in a
\* namespace or in the parent hierarchy) get distinct Target Object Keys.
C9_SameLeafDistinctKeys ==
    PassEnded =>
        \A e, f \in 1..Len(keys) :
            (keys[e].node # keys[f].node /\ LeafName(keys[e].node) = LeafName(keys[f].node))
            => keys[e].node_temp # keys[f].node_temp

\* C9 amended: two candidates with the same leaf name get distinct keys when
\* their namespace-stripped parent hierarchies differ and no segment of either
\* contains "_"; namespaces are stripped, so candidates that differ only in
\* namespaces are not told apart by the key.
C9_DistinctStrippedParentsDistinctKeys ==
    PassEnded =>
        \A e, f \in 1..Len(keys) :
            ( /\ LeafName(keys[e].node) = LeafName(keys[f].node)
              /\ StrippedParents(keys[e].node) # StrippedParents(keys[f].node)
              /\ NoUnderscore(keys[e].node) /\ NoUnderscore(keys[f].node) )
            => keys[e].node_temp # keys[f].node_temp

\* a pass computed different keys for two candidates of the same leaf name, of
\* which one is in a namespace, under different parents
C9_Witness ==
    /\ PassReturned
    /\ \E e, f \in 1..Len(keys) :
          /\ LeafName(keys[e].node) = LeafName(keys[f].node)
          /\ StrippedParents(keys[e].node) # StrippedParents(keys[f].node)
          /\ NoUnderscore(keys[e].node) /\ NoUnderscore(keys[f].node)
          /\ Last(Segments(transforms[keys[e].node].long))
                # Last(Segments(transforms[keys[f].node].long))
          /\ keys[e].node_temp # keys[f].node_temp

-----------------------------------------------------------------------------
(* The round trip of a publish and the load of its file *)

\* the file of a publish was referenced and the pass over it returned
Loaded == pc = "returned" /\ args.fn = "_hookup_shaders" /\ published # NoFile

\* the body of the marker publish created: its name without the prefix
RecordedBody(r) == SubSeq(recorded[r].node, Len(XgPrefix) + 1, Len(recorded[r].node))

\* the records publish made for the descriptions of the collection
DescriptionRecords ==
    {r \in 1..Len(recorded) :
        IsBound(transforms[recorded[r].obj].long, published.collection)}

\* the shader of record r as the reference brings it into the scene
ReferencedShader(r, namespace) == namespace \o <<":">> \o recorded[r].shader

\* C10: after a publish and the load of its file, for every description whose
\* shader publish recorded in a marker, the body of that marker matches the key
\* the pass computes for the description, and the description carries the
\* recorded shader
C10_RoundTripRestoresShader ==
    Loaded =>
        \A r \in DescriptionRecords :
            /\ re_search(<<"^">> \o RecordedBody(r) \o <<"$">>,
                         KeyOf(transforms, recorded[r].obj))
            /\ \E namespace \in ReferenceNamespaces :
                  shading[recorded[r].obj] = ReferencedShader(r, namespace)

\* a publish and a load after which a description carries the shader that
\* publish recorded for it, its key matched by the body of its marker
C10_Witness ==
    /\ Loaded
    /\ \E r \in DescriptionRecords :
          /\ re_search(<<"^">> \o RecordedBody(r) \o <<"$">>,
                       KeyOf(transforms, recorded[r].obj))
          /\ \E c \in 2..Len(calls) :
                /\ calls[c - 1] = [cmd |-> "select", node |-> recorded[r].obj]
                /\ calls[c].cmd = "hyperShade"
                /\ calls[c].assign \in {ReferencedShader(r, namespace) :
                                           namespace \in ReferenceNamespaces}
          /\ shading[recorded[r].obj] \in {ReferencedShader(r, namespace) :
                                              namespace \in ReferenceNamespaces}

-----------------------------------------------------------------------------
(* generate_actions *)

\* generate_actions returned
ActionsGenerated == pc = "returned" /\ args.fn = "generate_actions"

\* the instances of the returned list whose name is name
InstancesOf(name) == {i \in 1..Len(action_instances) : action_instances[i].name = name}

\* the action names generate_actions has a branch for
HookActionNames ==
    {"reference", "import", "link", "texture_node", "udim_texture_node", "image_plane"}

-----------------------------------------------------------------------------
(* The pattern body *)

\* C13: the pattern _shader_hookup_data builds for a marker is "^" + B + "$",
\* B being exactly the remainder of the marker's local name after its leading
\* prefix: only the leading occurrence of the prefix is removed, also when the
\* prefix occurs again in B
C13_BodyIsRemainderOfName ==
    DataReturned =>
        \A k \in Markers(args.hookup_prefix) :
            <<"^">> \o BodyOf(k, args.hookup_prefix) \o <<"$">> \in DOMAIN shader_hookups

\* a marker whose name holds the prefix once, and the pattern of the remainder
\* of its name is in the mapping returned
C13_Witness ==
    /\ DataReturned
    /\ \E k \in Markers(args.hookup_prefix) :
          /\ ~Occurs(args.hookup_prefix, BodyOf(k, args.hookup_prefix))
          /\ BodyOf(k, args.hookup_prefix) # <<>>
          /\ <<"^">> \o BodyOf(k, args.hookup_prefix) \o <<"$">> \in DOMAIN shader_hookups

-----------------------------------------------------------------------------
(* Candidates without a shape of the expected type *)

\* the transforms the pass looks at that have no child of the expected type
Shapeless ==
    {k \in 1..Len(transforms) :
        /\ In(k, nodes_of(transforms, args.node_type, args.collection))
        /\ transforms[k].shape # args.node_type}

\* C14: a pass skips every candidate that has no child of the expected shape
\* type: it computes no key for it, never selects it and leaves its shader,
\* even when a collected pattern matches its name
C14_ShapelessSkipped ==
    (PassEnded /\ args.error # "ImportError"
               /\ args.error # "The keyword 'collection' is None!") =>
        \A k \in Shapeless :
            /\ \A j \in 1..Len(keys) : keys[j].node # k
            /\ Untouched(k)

\* a pass returned that skipped a transform without a mesh whose key a
\* collected pattern with an existing shader matches, and assigned a shader to
\* another transform
C14_Witness ==
    /\ PassReturned
    /\ \E k \in Shapeless : \E pat \in DOMAIN shader_hookups :
          /\ re_search(pat, KeyOf(transforms, k))
          /\ objExists(shader_hookups[pat], materials)
          /\ Untouched(k)
    /\ \E c \in 1..Len(calls) : calls[c].cmd = "hyperShade"

-----------------------------------------------------------------------------
(* Marker bodies as regular expressions *)

\* key fits the body B read as a regular expression of literals and ".": the
\* same length, and at every position "." in B or the same character ignoring
\* case
Fits(B, key) ==
    /\ Len(B) = Len(key)
    /\ \A c \in 1..Len(B) : B[c] = "." \/ CaseFold(B[c]) = CaseFold(key[c])

\* C15: a marker body is used verbatim as an anchored regular expression: a
\* candidate gets the shader of a collected pattern whose shader exists exactly
\* when its whole key fits the body, "." standing for any character
C15_BodyIsAnchoredRegex ==
    PassReturned =>
        \A k \in Candidates : \A pat \in DOMAIN shader_hookups :
            objExists(shader_hookups[pat], materials) =>
                (Assigned(k, shader_hookups[pat]) <=> Fits(Literal(pat), KeyOf(transforms, k)))

\* a pass gave the shader of a body with "." to a candidate whose key is not
\* the body, and not to a candidate whose key only starts with a fitting piece
C15_Witness ==
    /\ PassReturned
    /\ \E pat \in DOMAIN shader_hookups :
          /\ \E c \in 1..Len(pat) : pat[c] = "."
          /\ \E k \in Candidates :
                /\ Assigned(k, shader_hookups[pat])
                /\ ~SameIgnoringCase(KeyOf(transforms, k), Literal(pat))
          /\ \E k \in Candidates :
                /\ ~Assigned(k, shader_hookups[pat])
                /\ Len(KeyOf(transforms, k)) > Len(Literal(pat))
                /\ Fits(Literal(pat), SubSeq(KeyOf(transforms, k), 1, Len(Literal(pat))))

-----------------------------------------------------------------------------
(* A host command that fails during a pass *)

\* a pass ended with the error of a host command
PassFailed == pc = "raised" /\ args.fn = "_hookup_shaders" /\ args.error = "host command failed"

\* the shader the commands of calls leave on transform k: the one of the last
\* assignment that follows a selection of k, else the one of the scene before
AssignedLast(k) ==
    LET at == {c \in Selects(k) : c < Len(calls) /\ calls[c + 1].cmd = "hyperShade"}
    IN IF at = {} THEN InitialShader
       ELSE calls[(CHOOSE c \in at : \A e \in at : e <= c) + 1].assign

\* C16: a host command that fails while a shader is assigned to candidate k
\* ends the pass with the error: the last command made is the selection of k,
\* no candidate after k has a key computed, is selected or changes its shader,
\* and every assignment made before stays
C16_FailureAbortsNoRollback ==
    PassFailed =>
        /\ calls # <<>>
        /\ Last(calls) = [cmd |-> "select", node |-> selection]
        /\ selection \in Candidates
        /\ \A j \in Candidates :
              j > selection => (Untouched(j) /\ \A e \in 1..Len(keys) : keys[e].node # j)
        /\ \A j \in 1..Len(transforms) : shading[j] = AssignedLast(j)

\* a pass failed at a candidate after it assigned a shader to an earlier one,
\* which keeps it
C16_Witness ==
    /\ PassFailed
    /\ \E j \in Candidates :
          /\ j < selection
          /\ shading[j] # InitialShader
          /\ shading[j] = AssignedLast(j)

-----------------------------------------------------------------------------
(* The orders of enumeration *)

\* the sequence q taken in the order o of its positions
Permuted(q, o) == [i \in 1..Len(q) |-> q[o[i]]]

\* the shaders of the transforms after a pass like the one made, had the host
\* listed the script nodes as sn and the candidates as cand, and the mapping
\* yielded its patterns in the order order
OutcomeOf(sn, order, cand) ==
    RunCalls(Commands(NodeWork(cand, 1, args.node_type, transforms,
                               shader_hookup_data(sn, args.hookup_prefix), order,
                               materials)),
             [k \in 1..Len(transforms) |-> InitialShader], 0).shading

\* the pass made gives every order of enumeration the shaders it left
SameForEveryOrder ==
    LET nodes == nodes_of(transforms, args.node_type, args.collection)
    IN \A mo \in Orders(1..Len(scriptNodes)) : \A co \in Orders(1..Len(nodes)) :
       \A order \in Orders(DOMAIN shader_hookups) :
           OutcomeOf(Permuted(scriptNodes, mo), order, Permuted(nodes, co)) = shading

\* every candidate key is matched by at most one collected pattern
NonOverlapping ==
    \A k \in Candidates : \A p, q \in DOMAIN shader_hookups :
        (re_search(p, KeyOf(transforms, k)) /\ re_search(q, KeyOf(transforms, k))) => p = q

\* no two markers of the prefix give the same pattern with different values
OneValuePerPattern ==
    \A m, n \in Markers(args.hookup_prefix) :
        Remove(BodyOf(m, args.hookup_prefix), args.hookup_prefix)
            = Remove(BodyOf(n, args.hookup_prefix), args.hookup_prefix)
        => ValueOf(m) = ValueOf(n)

\* C17 (as stated): when every candidate key is matched by at most one
\* collected pattern, the shaders of all objects after a pass are the same for
\* every enumeration order of the markers and of the candidates
C17_DeterministicWhenNonOverlapping ==
    (PassReturned /\ NonOverlapping) => SameForEveryOrder

\* C17 (corrected): when every candidate key is matched by at most one collected
\* pattern and no two markers give the same pattern with different values, the
\* shaders of all objects after a pass are the same for every enumeration order
\* of the markers, of the candidates and of the mapping
C17_DeterministicWhenOneValuePerPattern ==
    (PassReturned /\ NonOverlapping /\ OneValuePerPattern) => SameForEveryOrder

\* a pass over two markers with different patterns and two candidates, each
\* matched by one pattern, that assigned both shaders
C17_Witness ==
    /\ PassReturned /\ NonOverlapping /\ OneValuePerPattern
    /\ Cardinality(DOMAIN shader_hookups) >= 2
    /\ \E k, j \in Candidates : \E p, q \in DOMAIN shader_hookups :
          /\ k # j /\ p # q
          /\ Assigned(k, shader_hookups[p])
          /\ Assigned(j, shader_hookups[q])
          /\ shading[k] # shading[j]

-----------------------------------------------------------------------------
(* execute_multiple_actions *)

\* the steps of the trace made for the action at position i
StepsOf(i) == {t \in 1..Len(trace) : trace[t].at = i}

\* execute_action was called for the action at position i and returned
Executed(i) ==
    /\ i < exec.at \/ (i = exec.at /\ exec.status = "returned")
    /\ \E t \in StepsOf(i) : trace[t].op = "update_resolution"

\* C12: execute_multiple_actions applies the actions in list order and stops at
\* the first that raises: the steps of the trace follow the order of the list,
\* every action before the one in hand was executed and returned, no action
\* after it has made a step, and an error ends the call with that error
C12_InOrderStopsAtFirstError ==
    /\ \A t, u \in 1..Len(trace) : t < u => trace[t].at <= trace[u].at
    /\ \A i \in 1..Len(exec.actions) :
          /\ i < exec.at => Executed(i)
          /\ i > exec.at => StepsOf(i) = {}
    /\ exec.status = "raised" <=> exec.error # "none"
    /\ exec.status = "raised" => exec.at \in 1..Len(exec.actions)
    /\ exec.status = "returned" => exec.at = Len(exec.actions) + 1

\* the first of two actions raised after its handler returned: the call ended
\* with the error and the second action made no step
C12_Witness ==
    /\ exec.status = "raised"
    /\ Len(exec.actions) = 2
    /\ exec.at = 1
    /\ Cardinality(StepsOf(1)) >= 2
    /\ StepsOf(2) = {}

-----------------------------------------------------------------------------
(* execute_action *)

\* the steps of the action at position i, in order
StepSeqOf(i) ==
    LET OfAction(step) == step.at = i
    IN SelectSeq(trace, OfAction)

\* the functions called for the action at position i, in order
OpsOf(i) ==
    LET steps == StepSeqOf(i)
    IN [n \in 1..Len(steps) |-> steps[n].op]

\* the position in ops of the scene-time update, 0 when it was not called
TimeAt(ops) ==
    LET at == {n \in 1..Len(ops) : ops[n] = "update_scene_time"}
    IN IF at = {} THEN 0 ELSE CHOOSE n \in at : \A m \in at : n <= m

\* the functions of ops called before the scene-time update: the handler
HandlerOps(ops) ==
    IF TimeAt(ops) = 0 THEN ops ELSE SubSeq(ops, 1, TimeAt(ops) - 1)

\* the functions of ops called from the scene-time update on
PostOps(ops) ==
    IF TimeAt(ops) = 0 THEN <<>> ELSE SubSeq(ops, TimeAt(ops), Len(ops))

\* the functions execute_action calls after the handler only
PostOnly == {"update_scene_time", "os.listdir", "_load_render_setting", "update_resolution"}

\* the handler of the action at position i raised
HandlerRaised(i) ==
    exec.status = "raised" /\ exec.at = i /\ exec.error \notin PostFailures

\* the step of the task of the publish of action i
StepOf(i) == exec.actions[i].sg_publish_data.step

IsPrefix(p, q) == Len(p) <= Len(q) /\ SubSeq(q, 1, Len(p)) = p

\* the post-steps of an action whose task has the step: with the preset
\* loaded, and without
PostWithPreset == <<"update_scene_time", "find_one", "os.listdir", "_load_render_setting",
                    "update_resolution">>

PostWithoutPreset(step) ==
    IF step \in {150, 155, 7, 144}
    THEN <<"update_scene_time", "find_one", "os.listdir", "update_resolution">>
    ELSE <<"update_scene_time", "find_one", "update_resolution">>

\* C18 (as stated): execute_action runs the handler first and then the
\* scene-time update, the task query, with the render-preset load when the step
\* of the task is one of 150, 155, 7, 144, and the resolution update, for every
\* action name; when the handler raises none of them runs
C18_PostStepsWithPresetForStep ==
    \A i \in 1..Len(exec.actions) :
      \A ops \in {OpsOf(i)} :
        \A handler \in {HandlerOps(ops)}, post \in {PostOps(ops)} :
            /\ Executed(i) =>
                  post = IF StepOf(i) \in {150, 155, 7, 144} THEN PostWithPreset
                         ELSE PostWithoutPreset(StepOf(i))
            /\ \A n \in 1..Len(handler) : handler[n] \notin PostOnly
            /\ HandlerRaised(i) => post = <<>>

\* C18 (corrected): execute_action runs the handler first and then the
\* scene-time update, the task query, when the step of the task is one of 150,
\* 155, 7, 144 the listing of the lightRig folder with the render-preset load
\* if a ".json" file is listed, and the resolution update, for every action
\* name; a post-step that raises ends them; when the handler raises none runs
C18_PostStepsInOrder ==
    \A i \in 1..Len(exec.actions) :
      \A ops \in {OpsOf(i)} :
        \A handler \in {HandlerOps(ops)}, post \in {PostOps(ops)} :
            /\ Executed(i) =>
                  \/ post = PostWithoutPreset(StepOf(i))
                  \/ post = PostWithPreset /\ StepOf(i) \in {150, 155, 7, 144}
            /\ \/ IsPrefix(post, PostWithoutPreset(StepOf(i)))
               \/ IsPrefix(post, PostWithPreset) /\ StepOf(i) \in {150, 155, 7, 144}
            /\ \A n \in 1..Len(handler) : handler[n] \notin PostOnly
            /\ HandlerRaised(i) => post = <<>>
            /\ (i < exec.at \/ (i = exec.at /\ exec.status # "executing"
                                           /\ ~HandlerRaised(i)))
                  => post # <<>>

\* an action without a handler whose task has step 144 was executed with the
\* preset loaded, and a handler raised without any post-step
C18_Witness ==
    /\ Len(exec.actions) = 2
    /\ exec.actions[1].name = "download"
    /\ Executed(1)
    /\ OpsOf(1) = PostWithPreset
    /\ HandlerRaised(2)
    /\ OpsOf(2) # <<>>

-----------------------------------------------------------------------------
(* _create_reference and _do_import: the path that is not on disk *)

\* the handler of the action at position i found that its path is not on disk
FoundMissing(i) ==
    \E n \in 1..Len(trace) :
        trace[n].at = i /\ trace[n].op = "os.path.exists" /\ ~trace[n].result

\* the handler called for the name
HandlerOf(name) == IF name = "reference" THEN "_create_reference" ELSE "_do_import"

\* C19: _create_reference and _do_import raise "File not found on disk" when the
\* path of the publish does not exist, having called nothing but the test of
\* the path: no query of the tracking service, no reference, no import, no
\* pass of _hookup_shaders
C19_MissingFileRaisesFirst ==
    \A i \in 1..Len(exec.actions) :
        FoundMissing(i) =>
            /\ exec.at = i
            /\ exec.status = "raised"
            /\ exec.error = "File not found on disk"
            /\ exec.actions[i].name \in {"reference", "import"}
            /\ OpsOf(i) = <<HandlerOf(exec.actions[i].name), "os.path.exists">>

\* C19 (the scene): the execute_action call that ends with "File not found on
\* disk" leaves the script nodes, the shaders, the references and the shader
\* assignments of the scene as they were
C19_MissingFileLeavesScene ==
    [][exec'.status = "raised" /\ exec'.error = "File not found on disk"
           /\ exec.status = "executing"
       => UNCHANGED <<scriptNodes, materials, references, shading, calls, transforms>>]_vars

\* a reference of a file with script nodes and a task outside step 35, and an
\* import, each ended on a path that is not on disk
C19_Witness ==
    /\ exec.status = "raised"
    /\ exec.error = "File not found on disk"
    /\ FoundMissing(exec.at)
    /\ exec.actions[exec.at].name = "reference"
    /\ exec.actions[exec.at].sg_publish_data = ShaderNetworkFile

C19_WitnessImport ==
    /\ exec.status = "raised"
    /\ FoundMissing(exec.at)
    /\ exec.actions[exec.at].name = "import"


\* C19: on a path that does not exist _create_reference and _do_import raise
\* "File not found on disk" before any query of the tracking service and before
\* any change of the scene
C19_MissingFileRaisesBeforeAnything ==
    []C19_MissingFileRaisesFirst /\ C19_MissingFileLeavesScene

-----------------------------------------------------------------------------
(* _create_reference: the hair shader file that cannot be hooked up *)

\* the errors of _create_reference for a file of type "MAYA XGShader"
XGShaderErrors == {"XGen shader file name error!", "collection dose not exists!"}

\* the references of the scene to the file, as positions of refs
ReferencesTo(file, refs) == {r \in 1..Len(refs) : refs[r].path = file}

\* the file of the action in execution
FileAt(e) == e.actions[e.at].sg_publish_data.file

\* the execute_action call ends with an error of the hair shader file
XGShaderFailure ==
    exec.status = "executing" /\ exec'.status = "raised" /\ exec'.error \in XGShaderErrors

\* C20: in _create_reference for a file of type "MAYA XGShader", when the file
\* name does not contain "_GRM" or the collection named before "_GRM" does not
\* exist, the reference just created is removed and an error is raised: on this
\* failure the scene holds no reference to the file and no shader assignment
\* was made
C20_FailureLeavesNoReference ==
    [][XGShaderFailure =>
           /\ ReferencesTo(FileAt(exec), references') = {}
           /\ UNCHANGED <<shading, calls>>]_vars

\* C20 (what the code keeps): on this failure the scene holds as many
\* references to the file as before the call, and no shader assignment was made
C20_FailureKeepsReferenceCount ==
    [][XGShaderFailure =>
           /\ Cardinality(ReferencesTo(FileAt(exec), references'))
                  = Cardinality(ReferencesTo(FileAt(exec), references))
           /\ UNCHANGED <<shading, calls>>]_vars

\* the load of the misnamed hair shader file failed in a scene that referenced
\* the file already: the reference made by the call is the one that stays
C20_Witness ==
    /\ exec.status = "raised"
    /\ exec.error = "XGen shader file name error!"
    /\ FileAt(exec) = XGShaderFileMisnamed.file
    /\ \E r \in ReferencesTo(XGShaderFileMisnamed.file, references) :
           references[r].namespace # XGShaderFileMisnamed.namespace

\* the load of the hair shader file failed for want of its collection
C20_WitnessCollection ==
    /\ exec.status = "raised"
    /\ exec.error = "collection dose not exists!"
    /\ ReferencesTo(FileAt(exec), references) = {}

-----------------------------------------------------------------------------
(* _create_reference: import or reference *)

\* the publish of the action at position i
PublishOf(i) == exec.actions[i].sg_publish_data

\* the function op was called for the action whose functions are ops
CalledIn(op, ops) == \E n \in 1..Len(ops) : ops[n] = op

\* the handler "reference" of action i found its path and, for a file that is
\* not a camera, had the answer of the tracking service
ReferenceDecided(i) ==
    /\ exec.actions[i].name = "reference"
    /\ \E n \in 1..Len(trace) :
          trace[n].at = i /\ trace[n].op = "os.path.exists" /\ trace[n].result
    /\ ~(exec.at = i /\ exec.status = "raised"
           /\ exec.error = "find_one of _create_reference")

\* C21 (the calls): _create_reference turns the load into an import exactly
\* when the type of the file is not "MAYA Camera" and the task belongs to step
\* 35: _do_import runs, no reference is created and no pass of _hookup_shaders
\* is made; a "MAYA Camera" file is referenced without query of the task
C21_ImportCalls ==
    \A i \in 1..Len(exec.actions) :
      \A ops \in {HandlerOps(OpsOf(i))} :
        ReferenceDecided(i) =>
            /\ CalledIn("_do_import", ops)
                  <=> (PublishOf(i).type # "MAYA Camera" /\ PublishOf(i).step = 35)
            /\ CalledIn("_do_import", ops)
                  => ~CalledIn("createReference", ops) /\ ~CalledIn("_hookup_shaders", ops)
            /\ ~CalledIn("_do_import", ops) => CalledIn("createReference", ops)
            /\ PublishOf(i).type = "MAYA Camera" => ~CalledIn("find_one", ops)
            /\ PublishOf(i).type # "MAYA Camera" => CalledIn("find_one", ops)

\* C21 (the scene): the call of execute_action in which _create_reference
\* imports the file adds no reference and assigns no shader
C21_ImportLeavesReferences ==
    [][(/\ exec.status = "executing"
        /\ exec.actions[exec.at].name = "reference"
        /\ \E n \in Len(trace) + 1..Len(trace') : trace'[n].op = "_do_import")
       => UNCHANGED <<references, shading, calls>>]_vars

-----------------------------------------------------------------------------
(* _create_reference: the hookup after the reference *)

\* the calls of _hookup_shaders made for the action at position i
HookupsOf(i) ==
    {n \in 1..Len(trace) : trace[n].at = i /\ trace[n].op = "_hookup_shaders"}

\* _create_reference of action i created its reference
ReferenceCreated(i) ==
    /\ exec.actions[i].name = "reference"
    /\ \E n \in 1..Len(trace) : trace[n].at = i /\ trace[n].op = "createReference"
    /\ ~(exec.at = i /\ exec.status = "raised" /\ exec.error = "createReference")

\* the name checks of a hair shader file pass in the scene: "_GRM" is in the
\* name and the collection named before it exists
NameChecksPass(file) ==
    /\ In(GRM, file)
    /\ objExists(Head(Split(file, GRM)), SceneNames(transforms, scriptNodes, materials))

\* C22 (the calls): after _create_reference created a reference, the pass of
\* prefix "SHADER_HOOKUP_" on the meshes is made exactly for the type "Maya
\* Shader Network", and the pass of prefix "XGSHADER_HOOKUP_" with the name of
\* the collection exactly for the type "MAYA XGShader" whose name checks pass
C22_HookupCalls ==
    \A i \in 1..Len(exec.actions) :
        ReferenceCreated(i) =>
            /\ (\E n \in HookupsOf(i) : trace[n].hookup_prefix = MeshPrefix)
                  <=> PublishOf(i).type = "Maya Shader Network"
            /\ (\E n \in HookupsOf(i) : trace[n].hookup_prefix = XgPrefix)
                  <=> (PublishOf(i).type = "MAYA XGShader"
                          /\ NameChecksPass(PublishOf(i).file))
            /\ \A n \in HookupsOf(i) :
                  /\ trace[n].hookup_prefix \in {MeshPrefix, XgPrefix}
                  /\ trace[n].collection =
                         IF trace[n].hookup_prefix = MeshPrefix THEN None
                         ELSE Head(Split(PublishOf(i).file, GRM))
            /\ Cardinality(HookupsOf(i)) <= 1

\* C22 (the scene): the call of execute_action that references a file of
\* another type makes no shader assignment
C22_OtherTypeAssignsNothing ==
    [][(/\ exec.status = "executing"
        /\ exec.actions[exec.at].name = "reference"
        /\ exec.actions[exec.at].sg_publish_data.type
              \notin {"Maya Shader Network", "MAYA XGShader"})
       => UNCHANGED <<shading, calls>>]_vars

\* C22: after _create_reference creates a reference the mesh hookup runs if and
\* only if the type is "Maya Shader Network", the hair hookup if and only if
\* the type is "MAYA XGShader" and its name checks pass, and for every other
\* type no shader assignment is made
C22_HookupExactlyForShaderTypes == []C22_HookupCalls /\ C22_OtherTypeAssignsNothing

\* a hair shader file was referenced, its hookup ran with the collection c and
\* assigned a shader, and then a camera was referenced without hookup
C22_Witness ==
    /\ Len(exec.actions) = 2
    /\ exec.status = "returned"
    /\ PublishOf(1) = XGShaderFile
    /\ \E n \in HookupsOf(1) :
          trace[n].hookup_prefix = XgPrefix /\ trace[n].collection = <<"c">>
    /\ calls # <<>>
    /\ PublishOf(2) = CameraFile
    /\ ReferenceCreated(2)
    /\ HookupsOf(2) = {}

\* a shader file was referenced and its hookup ran on the meshes
C22_WitnessMesh ==
    /\ exec.status = "returned"
    /\ Len(exec.actions) = 1
    /\ PublishOf(1) = ShaderNetworkFile
    /\ \E n \in HookupsOf(1) : trace[n].hookup_prefix = MeshPrefix
    /\ calls # <<>>

-----------------------------------------------------------------------------
(* _hookup_xgen *)

\* the positions of the trace where a collection was imported
Imports == {n \in 1..Len(trace) : trace[n].op = "importBindPalette"}

\* C23 (the import): _hookup_xgen imports the collection only when the scene
\* has been saved and the directory of the collection does not exist at the
\* moment of the import; a directory that existed was removed just before, and
\* it was removed only after the user answered Ok to the warning
C23_ImportOnlyWithoutDirectory ==
    /\ \A n \in Imports :
          /\ work_file # <<>>
          /\ ~trace[n].existed
          /\ n > 1
          /\ \/ trace[n - 1].op = "_hookup_xgen"
             \/ trace[n - 1].op = "shutil.rmtree"
    /\ \A n \in 1..Len(trace) :
          trace[n].op = "shutil.rmtree" =>
              /\ n > 2
              /\ trace[n - 1] = [op |-> "answered", ret |-> "Ok"]
              /\ trace[n - 2].op = "warningBox"
    /\ Len(palettes) <= Cardinality(Imports)

\* C23 (the refusal): when the user declines, nothing is deleted, nothing is
\* imported and the result is False
C23_DeclineChangesNothing ==
    [][(pc = "asked" /\ trace'[Len(trace) + 1] = [op |-> "answered", ret |-> "Cancel"])
       => /\ UNCHANGED <<disk, palettes>>
          /\ Len(trace') = Len(trace) + 1
          /\ pc' = "returned"
          /\ args'.result = "False"]_vars

\* C23 (the unsaved scene): in a scene that was not saved nothing is deleted
\* and nothing is imported
C23_UnsavedChangesNothing ==
    [][work_file = <<>> => UNCHANGED <<disk, palettes>>]_vars

\* C23: _hookup_xgen imports the collection only when the scene has been saved
\* and, at the moment of the import, the directory of the collection does not
\* exist: if it existed it was deleted after the user confirmed; if the user
\* declines nothing is deleted, nothing is imported and the result is False;
\* if the scene is unsaved nothing is deleted or imported
C23_ImportOnlyIntoFreshDirectory ==
    /\ []C23_ImportOnlyWithoutDirectory
    /\ C23_DeclineChangesNothing
    /\ C23_UnsavedChangesNothing

\* the directory of the collection x existed, the user answered Ok, it was
\* removed and the collection was imported; a second import was declined
C23_Witness ==
    /\ pc = "returned"
    /\ args.result = "False"
    /\ Len(palettes) = 1
    /\ \E n \in Imports :
          /\ trace[n].collection = <<"x">>
          /\ trace[n - 1].op = "shutil.rmtree"
          /\ trace[Len(trace)] = [op |-> "answered", ret |-> "Cancel"]
          /\ n < Len(trace)

\* a call in a scene that was not saved returned after the message
C23_WitnessUnsaved ==
    /\ work_file = <<>>
    /\ pc = "returned"
    /\ trace # <<>>
    /\ trace[Len(trace)].op = "messageBox"

-----------------------------------------------------------------------------
(* process_current_session *)

\* a call of process_current_session has ended, by return or by an error
Collected == pc # "ready" /\ args.fn = "process_current_session"

\* C24 (the error): process_current_session ends with "Please save the scene
\* first." in a scene without file path, and only there
C24_UnsavedRaises ==
    Collected =>
        (work_file = <<>>
            <=> (pc = "raised" /\ args.error = "Please save the scene first."))

\* C24 (the tree): the call in a scene without file path leaves the children
\* of the parent item as they were
C24_UnsavedKeepsChildren ==
    [][(pc = "ready" /\ pc' # "ready" /\ work_file = <<>>)
       => parent_item' = parent_item]_vars

\* C24: process_current_session raises "Please save the scene first." when the
\* scene has no file path, before any item is created: the parent item has the
\* same children after the call as before
C24_UnsavedRaisesBeforeItems == []C24_UnsavedRaises /\ C24_UnsavedKeepsChildren

\* the call ended with the error in a scene without file path whose parent
\* item had a child, in a scene with geometry of step 15
C24_Witness ==
    /\ Collected
    /\ work_file = <<>>
    /\ args.error = "Please save the scene first."
    /\ Len(parent_item) = 1
    /\ session.geometry
    /\ session.step_id = 15


\* the types of the items of the tree under the parent item
TypesCollected ==
    UNION {{parent_item[k].type} \cup
           {parent_item[k].children[j].type : j \in 1..Len(parent_item[k].children)} :
              k \in 1..Len(parent_item)}

\* C25: for a scene whose file name contains "RSProxyRig", process_current_session
\* creates no maya.session.mesh item, no maya.session.geometry item and no
\* alembic cache item, for every step id; and for the step ids 138, 150 and 155
\* no maya.session.geometry item is created for any scene
C25_ProxyAndHairStepsSkipGeometry ==
    /\ In("RSProxyRig", basename(work_file)) =>
          TypesCollected \cap
              {"maya.session.mesh", "maya.session.geometry", "file.alembic"} = {}
    /\ session.step_id \in {138, 150, 155} =>
          "maya.session.geometry" \notin TypesCollected

\* the session of a proxy rig of step 15 with geometry, a project root and a
\* new alembic cache was collected, with its light rig
C25_Witness ==
    /\ Collected
    /\ pc = "returned"
    /\ work_file = ProxyScene
    /\ session.step_id = 15
    /\ session.geometry
    /\ session.project_root # <<>>
    /\ \E k \in 1..Len(session.caches) : ~session.caches[k].published
    /\ "maya.session.lightrig" \in TypesCollected

\* the session of a scene of step 150 with geometry was collected with its
\* alembic cache
C25_WitnessStep ==
    /\ Collected
    /\ pc = "returned"
    /\ work_file = SavedScene
    /\ session.step_id = 150
    /\ session.geometry
    /\ "file.alembic" \in TypesCollected

-----------------------------------------------------------------------------
(* MayaXGenShaderPublishPlugin.publish: the markers left in the scene *)

\* a call of publish has ended, by return or by an error
PublishEnded == pc \in {"returned", "published", "raised"} /\ args.fn = "publish"

\* the script nodes of the scene that the publish created
MarkersLeft ==
    {k \in 1..Len(scriptNodes) :
        /\ StartsWith(node_base_of(scriptNodes[k].name), XgPrefix)
        /\ \E r \in 1..Len(recorded) : recorded[r].node = scriptNodes[k].name}

\* C26: whenever publish finishes, by return or by an error, the scene holds no
\* script node of local name starting with "XGSHADER_HOOKUP_" that the publish
\* created, whether or not the export succeeded
C26_NoMarkerLeftInScene == PublishEnded => MarkersLeft = {}

\* C26 (what the code keeps): when publish returns, the scene holds no script
\* node that the publish created
C26_NoMarkerLeftAfterReturn == (PublishEnded /\ pc # "raised") => MarkersLeft = {}

\* the export of the shaders of a collection raised and the script nodes the
\* publish created for its descriptions are in the scene
C26_Witness ==
    /\ PublishEnded
    /\ pc = "raised"
    /\ recorded # <<>>
    /\ Cardinality(MarkersLeft) = Len(recorded)

====
